---- MODULE Spec2Model ----
(***************************************************************************)
(* A model of the SPOSH action-selection engine                            *)
(* (PogamutPlatform/scripting/python/sposh): the plan builder, the         *)
(* execution tree (drive collection, competences, action patterns,         *)
(* triggers) and the stepped timer, driven by Agent.followDrive.           *)
(*                                                                         *)
(* Objects are identified the way PlanBuilder creates them: one            *)
(* Competence / ActionPattern object per declared name (the stub           *)
(* dictionaries), one DriveElement / CompetenceElement object per element  *)
(* descriptor (the plans below give every element its own name).           *)
(***************************************************************************)
EXTENDS Integers, Sequences, FiniteSets, TLC

VARIABLES
    scenario,      \* the parsed plan (PlanBuilder fields) and the behaviour dictionary
    status,        \* "parsed" | "built" | "failed"
    build_error,   \* the exception PlanBuilder.build raised, or NoError
    tree,          \* the objects build constructed (the drive collection and the stubs)
    element_idx,   \* ActionPattern._element_idx, per action pattern object
    retries,       \* CompetenceElement._retries, per competence element object
    element,       \* DriveElement._element (the slip-stack cursor), per drive element
    last_fired,    \* DriveElement._last_fired, per drive element
    timer,         \* SteppedTimer._time of the timer objects
    agent_timer,   \* Agent._timer: which timer object the agent holds (0: None)
    last,          \* record of the most recent host call: its inputs, result and trace
    trigger_checks,\* history: per competence element, the readiness checks at which
                   \* its trigger held since construction or its last reset()
    since_fired,   \* history: per drive element, the passes made since the pass that
                   \* last fired it (-1: not fired since construction or reset())
    invocations,   \* history: per action, the calls of Action.fire since the build
    fires,         \* history: per competence element, the calls of its fire() since
                   \* construction or its last reset()
    loop_ends,     \* history: per timer object, the calls of loopEnd since its
                   \* construction or last reset()
    input,         \* LAPLexer._input: the text not yet tokenised
    lineno,        \* LAPLexer._lineno
    parser,        \* LAPParser._t, the exception it raised, the counters of plan()
                   \* and where in start() and plan() it stands
    sensing        \* a Trigger under evaluation: its senses, the sensor values, the
                   \* checks evaluated so far and what fire() returned

vars == <<scenario, status, build_error, tree, element_idx, retries, element,
          last_fired, timer, agent_timer, last, trigger_checks, since_fired,
          invocations, fires, loop_ends, input, lineno, parser, sensing>>

\* ------------------------------------------------------------------------
\* Bounds of the model
\* ------------------------------------------------------------------------
\* largest value the stepped timer is followed to
MaxTime == 4

\* the NUMINT values tried range from -MaxValue to MaxValue
MaxValue == 12

\* the longest text given to the lexer
MaxLen == 4

\* the most elements a plan text given to the parser has
MaxElements == 3

\* the most characters kept, or cut off, of a plan text that is cut short
MaxCut == 30

\* the history counters stop counting here
MaxCount == 3

\* ------------------------------------------------------------------------
\* Values: Python's None, numbers and strings
\* ------------------------------------------------------------------------
\* an optional value is <<>> (None) or <<v>>
None == <<>>

Some(v) == <<v>>

IntV(n) == [t |-> "int", n |-> n, s |-> ""]

StrV(s) == [t |-> "str", n |-> 0, s |-> s]

\* Python truth value of a sensor read
Truthy(v) == IF v.t = "int" THEN v.n # 0 ELSE v.s # ""

\* Python 2 comparison: numbers order before strings
PyEq(a, b) == a.t = b.t /\ a = b

PyLt(a, b) ==
    IF a.t = b.t
    THEN (IF a.t = "int" THEN a.n < b.n ELSE FALSE)
    ELSE a.t = "int"

Range(f) == {f[i] : i \in DOMAIN f}

RECURSIVE Flatten(_)
Flatten(ss) == IF ss = <<>> THEN <<>> ELSE Head(ss) \o Flatten(Tail(ss))

\* the permutations of a sequence (the iteration orders of a Python dict)
Perms(s) ==
    {p \in [1..Len(s) -> Range(s)] : \A i, j \in 1..Len(s) : i # j => p[i] # p[j]}

\* ------------------------------------------------------------------------
\* Plan descriptors, as the parser hands them to the PlanBuilder
\* ------------------------------------------------------------------------
\* a sense-act is given by its name alone (a string)
SenseAct(name) == [name |-> name, value |-> None, pred |-> None, full |-> FALSE]

\* a full sense is the triple (name, value, predicate); value and predicate
\* are strings or None
FullSense(name, value, pred) ==
    [name |-> name, value |-> value, pred |-> pred, full |-> TRUE]

\* (name, trigger, triggerable, freq): freq is None or Some(period)
DriveEl(name, trigger, triggerable, freq) ==
    [name |-> name, trigger |-> trigger, triggerable |-> triggerable, freq |-> freq]

\* (name, trigger, triggerable, retries): retries is -1 when none is given
CompEl(name, trigger, triggerable, max_retries) ==
    [name |-> name, trigger |-> trigger, triggerable |-> triggerable,
     retries |-> max_retries]

\* (name, time, goal, priorities)
CompDesc(name, goal, priorities) ==
    [name |-> name, time |-> None, goal |-> goal, priorities |-> priorities]

\* (name, time, elements)
APDesc(name, elements) == [name |-> name, time |-> None, elements |-> elements]

\* (type, name, goal, priorities)
DCDesc(type, name, goal, priorities) ==
    [type |-> type, name |-> name, goal |-> goal, priorities |-> priorities]

Scenario(id, actions, senses, dc, comps, aps) ==
    [id |-> id, actions |-> actions, senses |-> senses,
     drivecollection |-> dc, competences |-> comps, actionpatterns |-> aps]

\* Scenario A: one SDC collection, no goal, one drive element with nil
\* trigger, nil frequency and root action doThing
ScenarioA ==
    Scenario("A", {"doThing"}, {},
        DCDesc("SDC", "d", None, << << DriveEl("e1", None, "doThing", None) >> >>),
        <<>>, <<>>)

\* Scenario B: Scenario A with doThing unregistered
ScenarioB ==
    Scenario("B", {}, {},
        DCDesc("SDC", "d", None, << << DriveEl("e1", None, "doThing", None) >> >>),
        <<>>, <<>>)

\* a goal, two priority levels, frequency-gated drive elements on actions
ScenarioFreq ==
    Scenario("Freq", {"a1", "a2"}, {"s1", "s2", "g"},
        DCDesc("SDC", "life", << SenseAct("g") >>,
            << << DriveEl("e1", << SenseAct("s1") >>, "a1", Some(2)) >>,
               << DriveEl("e2", << SenseAct("s2") >>, "a2", Some(0)),
                  DriveEl("e3", << SenseAct("s2") >>, "a1", None) >> >>),
        <<>>, <<>>)

\* Scenario C: a competence with two priority levels
ScenarioC ==
    Scenario("C", {"a1", "act2"}, {"s1", "s2", "s3"},
        DCDesc("SDC", "d", None,
            << << DriveEl("e1", << SenseAct("s3") >>, "c1", None) >> >>),
        << CompDesc("c1", None,
            << << CompEl("ce1", << SenseAct("s2") >>, "a1", 1) >>,
               << CompEl("ce2", << SenseAct("s1") >>, "act2", -1) >> >>) >>,
        <<>>)

\* one action pattern referenced as the root of two drive elements
ScenarioShare ==
    Scenario("Share", {"a1", "a2"}, {"s1", "s2"},
        DCDesc("DC", "d", None,
            << << DriveEl("e1", << SenseAct("s1") >>, "ap1", None) >>,
               << DriveEl("e2", << SenseAct("s2") >>, "ap1", None) >> >>),
        <<>>,
        << APDesc("ap1", << SenseAct("a1"), SenseAct("a2"), SenseAct("a1") >>) >>)

\* Scenario D: an action pattern [a1, a2] under one drive element
ScenarioD ==
    Scenario("D", {"a1", "a2"}, {"s1"},
        DCDesc("SDC", "d", None,
            << << DriveEl("e1", << SenseAct("s1") >>, "apD", None) >> >>),
        <<>>,
        << APDesc("apD", << SenseAct("a1"), SenseAct("a2") >>) >>)

\* competences that reference each other, an action pattern ending in a competence
ScenarioCycle ==
    Scenario("Cycle", {"a1", "a2"}, {"s1", "s2"},
        DCDesc("SDC", "d", None,
            << << DriveEl("e1", << SenseAct("s1") >>, "c1", None) >> >>),
        << CompDesc("c1", None,
            << << CompEl("x1", << SenseAct("s2") >>, "ap1", 1) >>,
               << CompEl("x2", << SenseAct("s1") >>, "c2", -1) >> >>),
           CompDesc("c2", << SenseAct("s2"), SenseAct("s1") >>,
            << << CompEl("y1", << SenseAct("s1") >>, "c1", 0),
                  CompEl("y2", << FullSense("s2", Some("0"), Some("==")) >>, "a2", 0) >> >>) >>,
        << APDesc("ap1", << SenseAct("a1"), FullSense("s2", Some("1"), None),
                            SenseAct("c2") >>) >>)

\* a competence element declared without a trigger
ScenarioNil ==
    Scenario("Nil", {"a1"}, {"s1"},
        DCDesc("SDC", "d", None,
            << << DriveEl("e1", << SenseAct("s1") >>, "c1", Some(1)) >> >>),
        << CompDesc("c1", None, << << CompEl("n1", None, "a1", 0) >> >>) >>,
        <<>>)

\* a competence element names a triggerable that does not exist
ScenarioGhost ==
    Scenario("Ghost", {"a1"}, {"s1"},
        DCDesc("SDC", "d", None,
            << << DriveEl("e1", << SenseAct("s1") >>, "c1", None) >> >>),
        << CompDesc("c1", None,
            << << CompEl("k1", << SenseAct("s1") >>, "ghost", 0) >> >>) >>,
        <<>>)

\* a competence named like a registered action
ScenarioClashAction ==
    Scenario("ClashAction", {"a1"}, {"s1"},
        DCDesc("SDC", "d", None,
            << << DriveEl("e1", << SenseAct("s1") >>, "a1", None) >> >>),
        << CompDesc("a1", None,
            << << CompEl("k1", << SenseAct("s1") >>, "a1", 0) >> >>) >>,
        <<>>)

\* an action pattern named like a registered sense, next to a sound competence
ScenarioClashSense ==
    Scenario("ClashSense", {"a1"}, {"s1"},
        DCDesc("SDC", "d", None,
            << << DriveEl("e1", << SenseAct("s1") >>, "c1", None) >> >>),
        << CompDesc("c1", None,
            << << CompEl("k1", << SenseAct("s1") >>, "a1", 0) >> >>) >>,
        << APDesc("s1", << SenseAct("a1") >>) >>)

\* two unresolved names: one in a competence element, one in a drive element
ScenarioTwoGhosts ==
    Scenario("TwoGhosts", {"a1"}, {"s1"},
        DCDesc("SDC", "d", None,
            << << DriveEl("e1", << SenseAct("s1") >>, "ghostD", None) >> >>),
        << CompDesc("c1", None,
            << << CompEl("k1", << SenseAct("s1") >>, "ghostC", 0) >> >>) >>,
        <<>>)

\* a drive collection with a goal over a competence that hands off to an
\* action pattern, which ends in that competence
ScenarioGoal ==
    Scenario("Goal", {"a1"}, {"g", "s1"},
        DCDesc("SDC", "life", << SenseAct("g") >>,
            << << DriveEl("e1", << SenseAct("s1") >>, "c1", Some(1)) >> >>),
        << CompDesc("c1", None,
            << << CompEl("x1", << SenseAct("s1") >>, "apG", 1) >> >>) >>,
        << APDesc("apG", << SenseAct("a1"), SenseAct("c1") >>) >>)

\* an action pattern with a competence before its last element
ScenarioCompetenceFirst ==
    Scenario("CompetenceFirst", {"a1"}, {"s1"},
        DCDesc("SDC", "d", None,
            << << DriveEl("e1", << SenseAct("s1") >>, "ap1", None) >> >>),
        << CompDesc("c1", None,
            << << CompEl("k1", << SenseAct("s1") >>, "a1", 0) >> >>) >>,
        << APDesc("ap1", << SenseAct("c1"), SenseAct("a1") >>) >>)

\* an action pattern whose last element names an action pattern
ScenarioNestedPattern ==
    Scenario("NestedPattern", {"a1"}, {"s1"},
        DCDesc("SDC", "d", None,
            << << DriveEl("e1", << SenseAct("s1") >>, "ap1", None) >> >>),
        <<>>,
        << APDesc("ap1", << SenseAct("a1"), SenseAct("ap2") >>),
           APDesc("ap2", << SenseAct("a1") >>) >>)

\* a drive element whose interval is two steps longer than the time that
\* separates a never-fired element from timestamp 0
ScenarioSlow ==
    Scenario("Slow", {"a1"}, {"s1"},
        DCDesc("SDC", "d", None,
            << << DriveEl("e1", << SenseAct("s1") >>, "a1", Some(100002)) >> >>),
        <<>>, <<>>)

\* two priority levels: a competence that hands off to a nested competence,
\* and an action
ScenarioTwoDrives ==
    Scenario("TwoDrives", {"a1"}, {"s1", "s2"},
        DCDesc("SDC", "d", None,
            << << DriveEl("e1", << SenseAct("s1") >>, "c1", None) >>,
               << DriveEl("e2", << SenseAct("s2") >>, "a1", Some(1)) >> >>),
        << CompDesc("c1", None,
            << << CompEl("x1", << SenseAct("s1") >>, "c2", -1) >> >>),
           CompDesc("c2", None,
            << << CompEl("y1", << SenseAct("s1") >>, "a1", -1) >> >>) >>,
        <<>>)

Scenarios ==
    {ScenarioA, ScenarioB, ScenarioFreq, ScenarioC, ScenarioShare, ScenarioCycle,
     ScenarioD, ScenarioNil, ScenarioGhost, ScenarioClashAction, ScenarioClashSense,
     ScenarioTwoGhosts, ScenarioGoal, ScenarioCompetenceFirst, ScenarioNestedPattern,
     ScenarioSlow, ScenarioTwoDrives}

\* ------------------------------------------------------------------------
\* Plan objects
\* ------------------------------------------------------------------------
\* a reference to a plan object: its class and the name it was created under
Ref(kind, name) == [kind |-> kind, name |-> name, value |-> None, pred |-> ""]

NoneRef == Ref("None", "")

NoError == [type |-> "", name |-> "", phase |-> ""]

\* a NameError whose message contains name, raised in the given build phase
NameError(name, phase) == [type |-> "NameError", name |-> name, phase |-> phase]

TypeError(name, phase) == [type |-> "TypeError", name |-> name, phase |-> phase]

\* the literals the plans of this model use that _intMatcher accepts
IntLiterals == {"0", "1", "2"}

IntOf(lit) == CASE lit = "0" -> 0 [] lit = "1" -> 1 [] lit = "2" -> 2

\* literals _boolMatcher accepts
BoolLiterals == {"true", "True", "false", "False"}

\* Sense._convertValue
ConvertValue(value) ==
    IF value = None \/ value = Some("") THEN None
    ELSE IF value[1] \in IntLiterals THEN Some(IntV(IntOf(value[1])))
    ELSE IF value[1] \in BoolLiterals THEN Some(IntV(1))
    ELSE Some(StrV(value[1]))

\* Sense.__init__ (the object; the lookup that may fail is SenseError)
Sense(d) ==
    [kind |-> "Sense", name |-> d.name, value |-> ConvertValue(d.value),
     pred |-> IF d.pred = None \/ d.pred = Some("") THEN "==" ELSE d.pred[1]]

\* BehaviourDict.getSense as called by Sense.__init__
SenseError(sc, d, phase) ==
    IF d.name \in sc.senses THEN NoError ELSE NameError(d.name, phase)

\* the first exception of a sequence of steps executed in order
FirstError(errs) ==
    IF \E i \in DOMAIN errs : errs[i] # NoError
    THEN errs[CHOOSE i \in DOMAIN errs :
                  errs[i] # NoError /\ \A j \in 1..(i - 1) : errs[j] = NoError]
    ELSE NoError

\* PlanBuilder._buildGoal / _buildTrigger: None for an empty or absent list
BuildGoal(goal) == [i \in DOMAIN goal |-> Sense(goal[i])]

BuildGoalError(sc, goal, phase) ==
    FirstError([i \in DOMAIN goal |-> SenseError(sc, goal[i], phase)])

\* PlanBuilder._getTriggerable; competences and actionpatterns are the keys
\* of the stub dictionaries
\* variant: the lookup without its final raise, an unknown name yields None
GetTriggerableReturnsNone(sc, name, competences, actionpatterns, phase) ==
    IF name \notin sc.actions
    THEN IF name \in competences
         THEN [error |-> NoError, element |-> Ref("Competence", name)]
         ELSE IF name \in actionpatterns
         THEN [error |-> NoError, element |-> Ref("ActionPattern", name)]
         ELSE [error |-> NoError, element |-> NoneRef]
    ELSE IF name \in competences \/ name \in actionpatterns
         THEN [error |-> NameError(name, phase), element |-> NoneRef]
         ELSE [error |-> NoError, element |-> Ref("Action", name)]

GetTriggerable(sc, name, competences, actionpatterns, phase) ==
    IF name \notin sc.actions
    THEN IF name \in competences
         THEN [error |-> NoError, element |-> Ref("Competence", name)]
         ELSE IF name \in actionpatterns
         THEN [error |-> NoError, element |-> Ref("ActionPattern", name)]
         ELSE [error |-> NameError(name, phase), element |-> NoneRef]
    ELSE IF name \in competences \/ name \in actionpatterns
         THEN [error |-> NameError(name, phase), element |-> NoneRef]
         ELSE [error |-> NoError, element |-> Ref("Action", name)]

\* the exception of building one drive or competence element: the trigger
\* is built first, then the triggerable is looked up
ElementError(sc, el, competences, actionpatterns, phase) ==
    LET te == BuildGoalError(sc, el.trigger, phase)
    IN IF te # NoError THEN te
       ELSE GetTriggerable(sc, el.triggerable, competences, actionpatterns, phase).error

\* PlanBuilder._buildCompetenceElement
BuildCompetenceElement(sc, el, competences, actionpatterns) ==
    [name |-> el.name, trigger |-> BuildGoal(el.trigger),
     element |-> GetTriggerable(sc, el.triggerable, competences, actionpatterns,
                                "competences").element,
     max_retries |-> el.retries]

\* PlanBuilder._buildDriveElement
BuildDriveElement(sc, el, competences, actionpatterns) ==
    [name |-> el.name, trigger |-> BuildGoal(el.trigger),
     root |-> GetTriggerable(sc, el.triggerable, competences, actionpatterns,
                             "drivecollection").element,
     max_freq |-> el.freq]

\* variant: every element is looked up among the competences
APElementAnyPosition(sc, elements, j, competences) ==
    LET el == elements[j]
    IN IF ~el.full /\ el.name \in sc.senses
       THEN [error |-> NoError, element |-> Sense(el)]
       ELSE IF el.full
       THEN [error |-> SenseError(sc, el, "actionpatterns"), element |-> Sense(el)]
       ELSE GetTriggerable(sc, el.name, competences, {}, "actionpatterns")

\* PlanBuilder._buildActionPatterns, one element of the sequence: only the
\* last element is looked up among the competences
APElement(sc, elements, j, competences) ==
    LET el == elements[j]
    IN IF ~el.full /\ el.name \in sc.senses
       THEN [error |-> NoError, element |-> Sense(el)]
       ELSE IF el.full
       THEN [error |-> SenseError(sc, el, "actionpatterns"), element |-> Sense(el)]
       ELSE GetTriggerable(sc, el.name,
                           IF j = Len(elements) THEN competences ELSE {}, {},
                           "actionpatterns")

Names(descs) == {descs[i].name : i \in DOMAIN descs}

\* PlanBuilder._checkNameClashes, the test made for one plan name
ClashError(sc, name) ==
    IF name \in sc.actions \/ name \in sc.senses
    THEN NameError(name, "clash") ELSE NoError

\* one step of PlanBuilder.build: the exception it raises (or NoError) and
\* the node it constructs when it does not raise (or "")
Step(err, node) == [error |-> err, node |-> IF err = NoError THEN node ELSE ""]

\* PlanBuilder._checkNameClashes: competences first, then action patterns;
\* co and ao are the orders in which the two dictionaries are iterated
CheckNameClashes(sc, co, ao) ==
    [i \in DOMAIN co |-> Step(ClashError(sc, co[i].name), "")]
    \o [i \in DOMAIN ao |-> Step(ClashError(sc, ao[i].name), "")]

\* _buildCompetenceStubs, _buildActionPatternStubs, _buildCompetences,
\* _buildActionPatterns and _buildDriveCollection, step by step
BuildNodes(sc, co, ao) ==
    LET cn == Names(sc.competences)
        an == Names(sc.actionpatterns)
        dc == sc.drivecollection
        cstubs == [i \in DOMAIN co |->
                      Step(BuildGoalError(sc, co[i].goal, "stubs"), "Competence")]
        astubs == [i \in DOMAIN ao |-> Step(NoError, "ActionPattern")]
        cfill == Flatten([i \in DOMAIN co |->
                    LET els == Flatten(co[i].priorities)
                    IN [j \in DOMAIN els |->
                           Step(ElementError(sc, els[j], cn, an, "competences"),
                                "CompetenceElement")]])
        afill == Flatten([i \in DOMAIN ao |->
                    [j \in DOMAIN ao[i].elements |->
                        Step(APElement(sc, ao[i].elements, j, cn).error, "")]])
        dtype == << Step(IF dc.type \in {"SDC", "SRDC", "DC", "RDC"} THEN NoError
                         ELSE TypeError(dc.type, "drivecollection"), "Timer") >>
        dgoal == << Step(BuildGoalError(sc, dc.goal, "drivecollection"), "") >>
        des == LET els == Flatten(dc.priorities)
               IN [j \in DOMAIN els |->
                      Step(ElementError(sc, els[j], cn, an, "drivecollection"),
                           "DriveElement")]
    IN cstubs \o astubs \o cfill \o afill \o dtype \o dgoal \o des
       \o << Step(NoError, "DriveCollection") >>

\* variant: the name-clash check made after the nodes are built
BuildStepsCheckClashesLate(sc, co, ao) ==
    BuildNodes(sc, co, ao) \o CheckNameClashes(sc, co, ao)

\* the steps of PlanBuilder.build in the order they run
BuildSteps(sc, co, ao) == CheckNameClashes(sc, co, ao) \o BuildNodes(sc, co, ao)

\* the objects PlanBuilder.build returns when no step raises
BuildTree(sc) ==
    LET cn == Names(sc.competences)
        an == Names(sc.actionpatterns)
        dc == sc.drivecollection
        cdesc(n) == CHOOSE d \in Range(sc.competences) : d.name = n
        adesc(n) == CHOOSE d \in Range(sc.actionpatterns) : d.name = n
    IN [name |-> dc.name,
        goal |-> BuildGoal(dc.goal),
        elements |-> [p \in DOMAIN dc.priorities |->
                        [e \in DOMAIN dc.priorities[p] |->
                            BuildDriveElement(sc, dc.priorities[p][e], cn, an)]],
        competences |-> [n \in cn |->
            [name |-> n,
             goal |-> BuildGoal(cdesc(n).goal),
             elements |-> [p \in DOMAIN cdesc(n).priorities |->
                             [e \in DOMAIN cdesc(n).priorities[p] |->
                                 BuildCompetenceElement(sc, cdesc(n).priorities[p][e],
                                                        cn, an)]]]],
        actionpatterns |-> [n \in an |->
            [name |-> n,
             elements |-> [j \in DOMAIN adesc(n).elements |->
                              APElement(sc, adesc(n).elements, j, cn).element]]]]

NoTree ==
    [name |-> "", goal |-> None, elements |-> <<>>, competences |-> <<>>,
     actionpatterns |-> <<>>]

\* PlanBuilder.build: the exception it raises (NoError if none), the nodes
\* constructed up to there, and the drive collection it returns
Build(sc, co, ao) ==
    LET st == BuildSteps(sc, co, ao)
        err == FirstError([i \in DOMAIN st |-> st[i].error])
        upto == IF err = NoError THEN Len(st)
                ELSE (CHOOSE i \in DOMAIN st :
                         st[i].error # NoError
                         /\ \A j \in 1..(i - 1) : st[j].error = NoError) - 1
    IN [error |-> err,
        constructed |-> SelectSeq(SubSeq([i \in DOMAIN st |-> st[i].node], 1, upto),
                                  LAMBDA n : n # ""),
        tree |-> IF err = NoError THEN BuildTree(sc) ELSE NoTree]

\* ------------------------------------------------------------------------
\* One evaluation pass, computed on a copy of the mutable fields
\* ------------------------------------------------------------------------
\* F applied to the value of v, with v evaluated once (a local variable
\* holding the result of a call)
Bind(v, F(_)) == CHOOSE r \in {F(x) : x \in {v}} : TRUE

\* an entry of the trace of a pass: the method, the object it ran on, its result
Ev(op, id, res) == [op |-> op, id |-> id, res |-> res]

\* an exception raised at the given method propagates out of the pass
Raise(m, op, id) == [m EXCEPT !.raised = TRUE, !.log = Append(@, Ev(op, id, -1))]

Note(m, op, id, res) == [m EXCEPT !.log = Append(@, Ev(op, id, res))]

\* FireResult(continue, next) and its two accessors
FireResult(c, n) == [none |-> FALSE, cont |-> c, next |-> n]

continueExecution(r) == r.cont

nextElement(r) == r.next

\* the Python value None where a FireResult is expected
NoResult == [none |-> TRUE, cont |-> FALSE, next |-> NoneRef]

\* truth value of an object reference: None is false
IsSet(ref) == ref.kind # "None"

\* Sense.fire
SenseFire(s, env) ==
    LET result == env[s.name]
    IN IF s.value = None THEN Truthy(result)
       ELSE LET value == s.value[1]
            IN CASE s.pred = "==" -> PyEq(result, value)
                 [] s.pred = "!=" -> ~PyEq(result, value)
                 [] s.pred = "<=" -> PyLt(result, value) \/ PyEq(result, value)
                 [] s.pred = ">=" -> ~PyLt(result, value)
                 [] s.pred = ">" -> PyLt(value, result)
                 [] s.pred = "<" -> PyLt(result, value)
                 [] OTHER -> Truthy(result)

\* Trigger.fire
TriggerFire(trigger, env) == \A i \in DOMAIN trigger : SenseFire(trigger[i], env)

\* variant: the action is performed a second time when it fails
ActionFireRepeats(m, a) ==
    LET once == Note(m, "Action.fire", a.name, IF m.acts[a.name] THEN 1 ELSE 0)
    IN [m |-> IF m.acts[a.name] THEN once ELSE Note(once, "Action.fire", a.name, 0),
        r |-> m.acts[a.name]]

\* Action.fire
ActionFire(m, a) ==
    [m |-> Note(m, "Action.fire", a.name, IF m.acts[a.name] THEN 1 ELSE 0),
     r |-> m.acts[a.name]]

\* variant: the retry test with < in place of <=
CompetenceElementIsReadyOneRetryShort(m, ce) ==
    IF ce.trigger = None
    THEN [m |-> Raise(m, "CompetenceElement.isReady", ce.name), r |-> FALSE]
    ELSE IF TriggerFire(ce.trigger, m.env)
            /\ (ce.max_retries < 0 \/ m.retries[ce.name] < ce.max_retries)
    THEN [m |-> Note([m EXCEPT !.retries[ce.name] = @ + 1],
                     "CompetenceElement.isReady", ce.name, 1),
          r |-> TRUE]
    ELSE [m |-> Note(m, "CompetenceElement.isReady", ce.name, 0), r |-> FALSE]

\* CompetenceElement.isReady; a None trigger has no fire()
CompetenceElementIsReady(m, ce) ==
    IF ce.trigger = None
    THEN [m |-> Raise(m, "CompetenceElement.isReady", ce.name), r |-> FALSE]
    ELSE IF TriggerFire(ce.trigger, m.env)
            /\ (ce.max_retries < 0 \/ m.retries[ce.name] <= ce.max_retries)
    THEN [m |-> Note([m EXCEPT !.retries[ce.name] = @ + 1],
                     "CompetenceElement.isReady", ce.name, 1),
          r |-> TRUE]
    ELSE [m |-> Note(m, "CompetenceElement.isReady", ce.name, 0), r |-> FALSE]

\* variant: a fired action is reported as FireResult(1, None)
CompetenceElementFireContinues(m, ce) ==
    LET m1 == Note(m, "CompetenceElement.fire", ce.name, 1)
    IN IF ce.element.kind = "Action"
       THEN [m |-> ActionFire(m1, ce.element).m, r |-> FireResult(TRUE, NoneRef)]
       ELSE [m |-> m1, r |-> FireResult(TRUE, ce.element)]

\* variant: an Action is handed off like a competence or action pattern
CompetenceElementFireHandsOffAction(m, ce) ==
    [m |-> Note(m, "CompetenceElement.fire", ce.name, 1),
     r |-> FireResult(TRUE, ce.element)]

\* variant: a hand-off is reported with FireResult(0, element)
CompetenceElementFireStops(m, ce) ==
    LET m1 == Note(m, "CompetenceElement.fire", ce.name, 1)
    IN IF ce.element.kind = "Action"
       THEN [m |-> ActionFire(m1, ce.element).m, r |-> FireResult(FALSE, NoneRef)]
       ELSE [m |-> m1, r |-> FireResult(FALSE, ce.element)]

\* CompetenceElement.fire
CompetenceElementFire(m, ce) ==
    LET m1 == Note(m, "CompetenceElement.fire", ce.name, 1)
    IN IF ce.element.kind = "Action"
       THEN [m |-> ActionFire(m1, ce.element).m, r |-> FireResult(FALSE, NoneRef)]
       ELSE [m |-> m1, r |-> FireResult(TRUE, ce.element)]

\* variant: a ready element is passed over when a later element of the
\* level is ready too
RECURSIVE CompetencePriorityElementLoopPrefersLater(_, _, _)
CompetencePriorityElementLoopPrefersLater(m, elements, i) ==
    IF i > Len(elements) THEN [m |-> m, r |-> FireResult(TRUE, NoneRef)]
    ELSE Bind(CompetenceElementIsReady(m, elements[i]), LAMBDA rd :
            IF rd.m.raised THEN [m |-> rd.m, r |-> NoResult]
            ELSE IF rd.r
            THEN Bind(CompetencePriorityElementLoopPrefersLater(rd.m, elements, i + 1),
                      LAMBDA later :
                         IF later.m.raised \/ later.r # FireResult(TRUE, NoneRef)
                         THEN later
                         ELSE CompetenceElementFire(later.m, elements[i]))
            ELSE CompetencePriorityElementLoopPrefersLater(rd.m, elements, i + 1))

\* CompetencePriorityElement.fire, the loop from element i on
RECURSIVE CompetencePriorityElementLoop(_, _, _)
CompetencePriorityElementLoop(m, elements, i) ==
    IF i > Len(elements) THEN [m |-> m, r |-> FireResult(TRUE, NoneRef)]
    ELSE Bind(CompetenceElementIsReady(m, elements[i]), LAMBDA rd :
            IF rd.m.raised THEN [m |-> rd.m, r |-> NoResult]
            ELSE IF rd.r THEN CompetenceElementFire(rd.m, elements[i])
            ELSE CompetencePriorityElementLoop(rd.m, elements, i + 1))

CompetencePriorityElementFire(m, elements) ==
    CompetencePriorityElementLoop(m, elements, 1)

\* variant: the loop without the "and not result.nextElement()" test
RECURSIVE CompetenceLoopPastHandOff(_, _, _)
CompetenceLoopPastHandOff(m, elements, i) ==
    IF i > Len(elements) THEN [m |-> m, r |-> FireResult(FALSE, NoneRef)]
    ELSE Bind(CompetencePriorityElementFire(m, elements[i]), LAMBDA res :
            IF res.m.raised THEN res
            ELSE IF continueExecution(res.r)
            THEN CompetenceLoopPastHandOff(res.m, elements, i + 1)
            ELSE res)

\* Competence.fire, the loop over the priority elements from level i on
RECURSIVE CompetenceLoop(_, _, _)
CompetenceLoop(m, elements, i) ==
    IF i > Len(elements) THEN [m |-> m, r |-> FireResult(FALSE, NoneRef)]
    ELSE Bind(CompetencePriorityElementFire(m, elements[i]), LAMBDA res :
            IF res.m.raised THEN res
            ELSE IF continueExecution(res.r) /\ ~IsSet(nextElement(res.r))
            THEN CompetenceLoop(res.m, elements, i + 1)
            ELSE res)

\* variant: the goal is looked at after the priority elements were fired
CompetenceFireGoalLast(m, c) ==
    Bind(CompetenceLoop(Note(m, "Competence.fire", c.name, 1), c.elements, 1),
         LAMBDA res :
            IF res.m.raised THEN res
            ELSE IF c.goal # None /\ TriggerFire(c.goal, m.env)
            THEN [m |-> Note(res.m, "Competence.goal", c.name, 1),
                  r |-> FireResult(FALSE, NoneRef)]
            ELSE res)

\* Competence.fire
CompetenceFire(m, c) ==
    LET m1 == Note(m, "Competence.fire", c.name, 1)
    IN IF c.goal # None /\ TriggerFire(c.goal, m.env)
       THEN [m |-> Note(m1, "Competence.goal", c.name, 1),
             r |-> FireResult(FALSE, NoneRef)]
       ELSE CompetenceLoop(m1, c.elements, 1)

\* variant: a failed element leaves the cursor where it is
ActionPatternFireKeepsCursor(m, ap) ==
    LET idx == m.element_idx[ap.name]
        el == ap.elements[idx + 1]
        m1 == Note(m, "ActionPattern.fire", ap.name, idx)
    IN IF el.kind = "Action" \/ el.kind = "Sense"
       THEN LET f == IF el.kind = "Action" THEN ActionFire(m1, el)
                     ELSE [m |-> m1, r |-> SenseFire(el, m.env)]
            IN IF ~f.r
               THEN [m |-> f.m, r |-> FireResult(FALSE, NoneRef)]
               ELSE IF idx + 1 >= Len(ap.elements)
               THEN [m |-> [f.m EXCEPT !.element_idx[ap.name] = 0],
                     r |-> FireResult(FALSE, NoneRef)]
               ELSE [m |-> [f.m EXCEPT !.element_idx[ap.name] = idx + 1],
                     r |-> FireResult(TRUE, NoneRef)]
       ELSE [m |-> [m1 EXCEPT !.element_idx[ap.name] = 0],
             r |-> FireResult(TRUE, el)]

\* variant: the test for the end of the sequence with > in place of >=
ActionPatternFirePastEnd(m, ap) ==
    LET idx == m.element_idx[ap.name]
        el == ap.elements[idx + 1]
        m1 == Note(m, "ActionPattern.fire", ap.name, idx)
    IN IF el.kind = "Action" \/ el.kind = "Sense"
       THEN LET f == IF el.kind = "Action" THEN ActionFire(m1, el)
                     ELSE [m |-> m1, r |-> SenseFire(el, m.env)]
            IN IF ~f.r
               THEN [m |-> [f.m EXCEPT !.element_idx[ap.name] = 0],
                     r |-> FireResult(FALSE, NoneRef)]
               ELSE IF idx + 1 > Len(ap.elements)
               THEN [m |-> [f.m EXCEPT !.element_idx[ap.name] = 0],
                     r |-> FireResult(FALSE, NoneRef)]
               ELSE [m |-> [f.m EXCEPT !.element_idx[ap.name] = idx + 1],
                     r |-> FireResult(TRUE, NoneRef)]
       ELSE [m |-> [m1 EXCEPT !.element_idx[ap.name] = 0],
             r |-> FireResult(TRUE, el)]

\* variant: a competence at the cursor is fired by the action pattern
ActionPatternFireEntersCompetence(m, ap) ==
    LET idx == m.element_idx[ap.name]
        el == ap.elements[idx + 1]
        m1 == Note(m, "ActionPattern.fire", ap.name, idx)
    IN IF el.kind = "Action" \/ el.kind = "Sense"
       THEN LET f == IF el.kind = "Action" THEN ActionFire(m1, el)
                     ELSE [m |-> m1, r |-> SenseFire(el, m.env)]
            IN IF ~f.r
               THEN [m |-> [f.m EXCEPT !.element_idx[ap.name] = 0],
                     r |-> FireResult(FALSE, NoneRef)]
               ELSE IF idx + 1 >= Len(ap.elements)
               THEN [m |-> [f.m EXCEPT !.element_idx[ap.name] = 0],
                     r |-> FireResult(FALSE, NoneRef)]
               ELSE [m |-> [f.m EXCEPT !.element_idx[ap.name] = idx + 1],
                     r |-> FireResult(TRUE, NoneRef)]
       ELSE [m |-> Note([m1 EXCEPT !.element_idx[ap.name] = 0],
                        "Competence.fire", el.name, 1),
             r |-> FireResult(TRUE, el)]

\* ActionPattern.fire
ActionPatternFire(m, ap) ==
    LET idx == m.element_idx[ap.name]
        el == ap.elements[idx + 1]
        m1 == Note(m, "ActionPattern.fire", ap.name, idx)
    IN IF el.kind = "Action" \/ el.kind = "Sense"
       THEN LET f == IF el.kind = "Action" THEN ActionFire(m1, el)
                     ELSE [m |-> m1, r |-> SenseFire(el, m.env)]
            IN IF ~f.r
               THEN [m |-> [f.m EXCEPT !.element_idx[ap.name] = 0],
                     r |-> FireResult(FALSE, NoneRef)]
               ELSE IF idx + 1 >= Len(ap.elements)
               THEN [m |-> [f.m EXCEPT !.element_idx[ap.name] = 0],
                     r |-> FireResult(FALSE, NoneRef)]
               ELSE [m |-> [f.m EXCEPT !.element_idx[ap.name] = idx + 1],
                     r |-> FireResult(TRUE, NoneRef)]
       ELSE [m |-> [m1 EXCEPT !.element_idx[ap.name] = 0],
             r |-> FireResult(TRUE, el)]

\* max_freq < 0 in Python 2, where None orders before every number
MaxFreqNegative(max_freq) == max_freq = None \/ max_freq[1] < 0

\* variant: the check without the assignment to _last_fired
DriveElementIsReadyKeepsLastFired(m, de, timestamp) ==
    IF de.trigger = None
    THEN [m |-> Raise(m, "DriveElement.isReady", de.name), r |-> FALSE]
    ELSE IF TriggerFire(de.trigger, m.env)
            /\ (MaxFreqNegative(de.max_freq)
                \/ timestamp - m.last_fired[de.name] >= de.max_freq[1])
    THEN [m |-> Note(m, "DriveElement.isReady", de.name, 1), r |-> TRUE]
    ELSE [m |-> Note(m, "DriveElement.isReady", de.name, 0), r |-> FALSE]

\* variant: the timestamp is stored whenever the trigger holds
DriveElementIsReadyStampsAlways(m, de, timestamp) ==
    IF de.trigger = None
    THEN [m |-> Raise(m, "DriveElement.isReady", de.name), r |-> FALSE]
    ELSE IF TriggerFire(de.trigger, m.env)
    THEN IF MaxFreqNegative(de.max_freq)
            \/ timestamp - m.last_fired[de.name] >= de.max_freq[1]
         THEN [m |-> Note([m EXCEPT !.last_fired[de.name] = timestamp],
                          "DriveElement.isReady", de.name, 1),
               r |-> TRUE]
         ELSE [m |-> Note([m EXCEPT !.last_fired[de.name] = timestamp],
                          "DriveElement.isReady", de.name, 0),
               r |-> FALSE]
    ELSE [m |-> Note(m, "DriveElement.isReady", de.name, 0), r |-> FALSE]

\* variant: the interval must have been exceeded, not just reached
DriveElementIsReadyStrict(m, de, timestamp) ==
    IF de.trigger = None
    THEN [m |-> Raise(m, "DriveElement.isReady", de.name), r |-> FALSE]
    ELSE IF TriggerFire(de.trigger, m.env)
            /\ (MaxFreqNegative(de.max_freq)
                \/ timestamp - m.last_fired[de.name] > de.max_freq[1])
    THEN [m |-> Note([m EXCEPT !.last_fired[de.name] = timestamp],
                     "DriveElement.isReady", de.name, 1),
          r |-> TRUE]
    ELSE [m |-> Note(m, "DriveElement.isReady", de.name, 0), r |-> FALSE]

\* DriveElement.isReady; a None trigger has no fire()
DriveElementIsReady(m, de, timestamp) ==
    IF de.trigger = None
    THEN [m |-> Raise(m, "DriveElement.isReady", de.name), r |-> FALSE]
    ELSE IF TriggerFire(de.trigger, m.env)
            /\ (MaxFreqNegative(de.max_freq)
                \/ timestamp - m.last_fired[de.name] >= de.max_freq[1])
    THEN [m |-> Note([m EXCEPT !.last_fired[de.name] = timestamp],
                     "DriveElement.isReady", de.name, 1),
          r |-> TRUE]
    ELSE [m |-> Note(m, "DriveElement.isReady", de.name, 0), r |-> FALSE]

\* variant: a hand-off target in the result is not stored as the cursor
DriveElementFireKeepsCursor(m, de) ==
    LET el == m.element[de.name]
        m1 == Note(m, "DriveElement.fire", de.name, 1)
    IN IF el.kind = "Action"
       THEN [ActionFire(m1, el).m EXCEPT !.element[de.name] = de.root]
       ELSE Bind(IF el.kind = "Competence"
                 THEN CompetenceFire(m1, tree.competences[el.name])
                 ELSE ActionPatternFire(m1, tree.actionpatterns[el.name]),
                 LAMBDA res :
            LET m2 == [res.m EXCEPT !.fire_result = res.r]
            IN IF res.m.raised THEN res.m
               ELSE IF continueExecution(res.r) THEN m2
               ELSE [m2 EXCEPT !.element[de.name] = de.root])

\* variant: a stop result is answered with reset(), which also puts
\* _last_fired back to its initial value
DriveElementFireResetsOnStop(m, de) ==
    LET el == m.element[de.name]
        m1 == Note(m, "DriveElement.fire", de.name, 1)
    IN IF el.kind = "Action"
       THEN [ActionFire(m1, el).m EXCEPT !.element[de.name] = de.root]
       ELSE Bind(IF el.kind = "Competence"
                 THEN CompetenceFire(m1, tree.competences[el.name])
                 ELSE ActionPatternFire(m1, tree.actionpatterns[el.name]),
                 LAMBDA res :
            LET m2 == [res.m EXCEPT !.fire_result = res.r]
            IN IF res.m.raised THEN res.m
               ELSE IF continueExecution(res.r)
               THEN IF IsSet(nextElement(res.r))
                    THEN [m2 EXCEPT !.element[de.name] = nextElement(res.r)]
                    ELSE m2
               ELSE [m2 EXCEPT !.element[de.name] = de.root,
                               !.last_fired[de.name] = -100000])

\* DriveElement.fire (it returns None: the result is the changed fields)
DriveElementFire(m, de) ==
    LET el == m.element[de.name]
        m1 == Note(m, "DriveElement.fire", de.name, 1)
    IN IF el.kind = "Action"
       THEN [ActionFire(m1, el).m EXCEPT !.element[de.name] = de.root]
       ELSE Bind(IF el.kind = "Competence"
                 THEN CompetenceFire(m1, tree.competences[el.name])
                 ELSE ActionPatternFire(m1, tree.actionpatterns[el.name]),
                 LAMBDA res :
            LET m2 == [res.m EXCEPT !.fire_result = res.r]
            IN IF res.m.raised THEN res.m
               ELSE IF continueExecution(res.r)
               THEN IF IsSet(nextElement(res.r))
                    THEN [m2 EXCEPT !.element[de.name] = nextElement(res.r)]
                    ELSE m2
               ELSE [m2 EXCEPT !.element[de.name] = de.root])

\* variant: the loop without the return after element.fire()
RECURSIVE DrivePriorityElementLoopFiresAllReady(_, _, _, _)
DrivePriorityElementLoopFiresAllReady(m, elements, timestamp, i) ==
    IF i > Len(elements) THEN [m |-> m, r |-> NoResult]
    ELSE Bind(DriveElementIsReady(m, elements[i], timestamp), LAMBDA rd :
            IF rd.m.raised THEN [m |-> rd.m, r |-> NoResult]
            ELSE IF rd.r
            THEN Bind(DriveElementFire(rd.m, elements[i]), LAMBDA fired :
                    [m |-> DrivePriorityElementLoopFiresAllReady(
                               fired, elements, timestamp, i + 1).m,
                     r |-> FireResult(FALSE, NoneRef)])
            ELSE DrivePriorityElementLoopFiresAllReady(rd.m, elements, timestamp, i + 1))

\* DrivePriorityElement.fire, the loop from element i on
RECURSIVE DrivePriorityElementLoop(_, _, _, _)
DrivePriorityElementLoop(m, elements, timestamp, i) ==
    IF i > Len(elements) THEN [m |-> m, r |-> NoResult]
    ELSE Bind(DriveElementIsReady(m, elements[i], timestamp), LAMBDA rd :
            IF rd.m.raised THEN [m |-> rd.m, r |-> NoResult]
            ELSE IF rd.r
            THEN [m |-> DriveElementFire(rd.m, elements[i]),
                  r |-> FireResult(FALSE, NoneRef)]
            ELSE DrivePriorityElementLoop(rd.m, elements, timestamp, i + 1))

\* variant: a level whose fired action failed counts as not fired
DrivePriorityElementFireReportsFailure(m, elements) ==
    Bind(DrivePriorityElementLoop(m, elements, m.dpe_time, 1), LAMBDA res :
        IF \E i \in DOMAIN res.m.log :
              res.m.log[i].op = "Action.fire" /\ res.m.log[i].res = 0
        THEN [m |-> res.m, r |-> NoResult]
        ELSE res)

\* DrivePriorityElement.fire: the timestamp is read from the timer the
\* element took from the agent when it was constructed
DrivePriorityElementFire(m, elements) ==
    DrivePriorityElementLoop(m, elements, m.dpe_time, 1)

\* variant: the loop goes on to the next priority element after one fired
RECURSIVE DriveCollectionLoopTriesAllLevels(_, _, _)
DriveCollectionLoopTriesAllLevels(m, elements, i) ==
    IF i > Len(elements) THEN [m |-> m, r |-> FireResult(FALSE, NoneRef)]
    ELSE Bind(DrivePriorityElementFire(m, elements[i]), LAMBDA res :
            IF res.m.raised THEN res
            ELSE IF ~res.r.none
            THEN [m |-> DriveCollectionLoopTriesAllLevels(res.m, elements, i + 1).m,
                  r |-> FireResult(TRUE, NoneRef)]
            ELSE DriveCollectionLoopTriesAllLevels(res.m, elements, i + 1))

\* DriveCollection.fire, the loop over the priority elements from level i on
RECURSIVE DriveCollectionLoop(_, _, _)
DriveCollectionLoop(m, elements, i) ==
    IF i > Len(elements) THEN [m |-> m, r |-> FireResult(FALSE, NoneRef)]
    ELSE Bind(DrivePriorityElementFire(m, elements[i]), LAMBDA res :
            IF res.m.raised THEN res
            ELSE IF ~res.r.none THEN [m |-> res.m, r |-> FireResult(TRUE, NoneRef)]
            ELSE DriveCollectionLoop(res.m, elements, i + 1))

\* variant: the method without the goal check
DriveCollectionFireSkipsGoal(m, dc) == DriveCollectionLoop(m, dc.elements, 1)

\* variant: the goal is looked at after the priority elements were fired
DriveCollectionFireGoalLast(m, dc) ==
    Bind(DriveCollectionLoop(m, dc.elements, 1), LAMBDA res :
        IF res.m.raised THEN res
        ELSE IF dc.goal # None /\ TriggerFire(dc.goal, m.env)
        THEN [m |-> Note(res.m, "DriveCollection.goal", dc.name, 1),
              r |-> FireResult(FALSE, Ref("DriveCollection", dc.name))]
        ELSE res)

\* DriveCollection.fire
DriveCollectionFire(m, dc) ==
    IF dc.goal # None /\ TriggerFire(dc.goal, m.env)
    THEN [m |-> Note(m, "DriveCollection.goal", dc.name, 1),
          r |-> FireResult(FALSE, Ref("DriveCollection", dc.name))]
    ELSE DriveCollectionLoop(m, dc.elements, 1)

\* the three results of Agent.followDrive
DRIVE_FOLLOWED == 0

DRIVE_WON == 1

DRIVE_LOST == -1

\* the mapping at the end of Agent.followDrive
DriveResult(result) ==
    IF continueExecution(result) THEN DRIVE_FOLLOWED
    ELSE IF IsSet(nextElement(result)) THEN DRIVE_WON
    ELSE DRIVE_LOST

\* ------------------------------------------------------------------------
\* The host's calls
\* ------------------------------------------------------------------------
\* what a sensor may read
SenseValues == {IntV(0), IntV(1)}

\* DriveElement.__init__ / reset: the initial time of the last firing
InitialLastFired == -100000

\* the timer object the drive priority elements took from the agent when
\* PlanBuilder._buildDriveCollection constructed them
DPETimer == 1

Flat(elements) == Flatten(elements)

\* the drive elements and the competence elements of the built plan
DriveElements == Range(Flat(tree.elements))

CompetenceElementsOf(c) == Range(Flat(tree.competences[c].elements))

CompetenceElements == UNION {CompetenceElementsOf(c) : c \in DOMAIN tree.competences}

\* LAPParser.__init__: no current token; parse() not yet at start()
NoParser ==
    [input |-> "", lineno |-> 0, t |-> [token |-> "None", value |-> ""],
     error |-> [type |-> "", msg |-> ""], ap |-> 0, c |-> 0, d |-> 0, dc |-> 0,
     at |-> "start"]

\* no trigger is evaluated step by step
NoSensing ==
    [descs |-> <<>>, senses |-> <<>>, env |-> <<>>, fired |-> <<>>,
     done |-> FALSE, result |-> FALSE]

\* no lexer was given a text and no trigger is looked at on its own
LexerIdle ==
    /\ input = ""
    /\ lineno = 1
    /\ parser = NoParser
    /\ sensing = NoSensing

CallRecord(op) ==
    [op |-> op, env |-> <<>>, raised |-> FALSE, result |-> 0,
     fire_result |-> NoResult, log |-> <<>>, constructed |-> <<>>,
     since_fired |-> <<>>]

Init ==
    /\ scenario \in Scenarios
    /\ status = "parsed"
    /\ build_error = NoError
    /\ tree = NoTree
    /\ element_idx = <<>>
    /\ retries = <<>>
    /\ element = <<>>
    /\ last_fired = <<>>
    /\ timer = <<0>>
    /\ agent_timer = 0
    /\ last = CallRecord("init")
    /\ trigger_checks = <<>>
    /\ since_fired = <<>>
    /\ invocations = <<>>
    /\ fires = <<>>
    /\ loop_ends = <<0>>
    /\ LexerIdle

\* Agent.__init__: plan_builder.build(self)
BuildPlan ==
    /\ status = "parsed"
    /\ \E co \in Perms(scenario.competences), ao \in Perms(scenario.actionpatterns) :
          \E b \in {Build(scenario, co, ao)} :
          LET des == Range(Flatten(b.tree.elements))
              ces == UNION {Range(Flatten(b.tree.competences[c].elements)) :
                               c \in DOMAIN b.tree.competences}
          IN /\ status' = IF b.error = NoError THEN "built" ELSE "failed"
             /\ build_error' = b.error
             /\ tree' = b.tree
             /\ element_idx' = [n \in DOMAIN b.tree.actionpatterns |-> 0]
             /\ retries' = [n \in {ce.name : ce \in ces} |-> 0]
             /\ element' = [n \in {de.name : de \in des} |->
                               (CHOOSE de \in des : de.name = n).root]
             /\ last_fired' = [n \in {de.name : de \in des} |-> InitialLastFired]
             /\ trigger_checks' = [n \in {ce.name : ce \in ces} |-> 0]
             /\ since_fired' = [n \in {de.name : de \in des} |-> -1]
             /\ fires' = [n \in {ce.name : ce \in ces} |-> 0]
             /\ invocations' = IF b.error = NoError
                                THEN [a \in scenario.actions |-> 0] ELSE <<>>
             /\ agent_timer' = IF \E i \in DOMAIN b.constructed : b.constructed[i] = "Timer"
                               THEN DPETimer ELSE agent_timer
             /\ last' = [CallRecord("build") EXCEPT !.constructed = b.constructed]
    /\ UNCHANGED <<scenario, timer, loop_ends, input, lineno, parser, sensing>>

\* whether the trace holds an entry of this method on this object with this result
Logged(log, op, id, res) ==
    \E i \in DOMAIN log : log[i] = Ev(op, id, res)

Min(a, b) == IF a < b THEN a ELSE b

\* SteppedTimer.reset
SteppedTimerReset(time) == 0

\* SteppedTimer.time
SteppedTimerTime(time) == time

\* SteppedTimer.loopEnd
SteppedTimerLoopEnd(time) == time + 1

\* variant: loopWait lets a step pass
SteppedTimerLoopWaitSteps(time) == time + 1

\* SteppedTimer.loopWait
SteppedTimerLoopWait(time) == time

\* SteppedTimer.setLoopFreq
SteppedTimerSetLoopFreq(time, loop_freq) == time

\* variant: the step is counted before the pass as well
AgentLoopWaitEnds(timers) ==
    [timers EXCEPT ![agent_timer] = SteppedTimerLoopEnd(@)]

\* Agent.followDrive: self._timer.loopWait()
AgentLoopWait(timers) ==
    [timers EXCEPT ![agent_timer] = SteppedTimerLoopWait(@)]

\* Agent.followDrive: self._timer.loopEnd()
AgentLoopEnd(timers) ==
    [timers EXCEPT ![agent_timer] = SteppedTimerLoopEnd(@)]

\* Agent.followDrive with the sensor reads env and the action results acts
AgentFollowDrive(env, acts) ==
    \E waited \in {AgentLoopWait(timer)} :
    LET m0 == [element_idx |-> element_idx, retries |-> retries, element |-> element,
               last_fired |-> last_fired, log |-> <<>>, raised |-> FALSE,
               fire_result |-> NoResult, env |-> env, acts |-> acts,
               dpe_time |-> SteppedTimerTime(waited[DPETimer])]
    IN \E res \in {DriveCollectionFire(m0, tree)} : \E m \in {res.m} :
       /\ element_idx' = m.element_idx
       /\ retries' = m.retries
       /\ element' = m.element
       /\ last_fired' = m.last_fired
       /\ timer' = IF m.raised THEN waited ELSE AgentLoopEnd(waited)
       /\ loop_ends' = IF m.raised THEN loop_ends
                       ELSE [loop_ends EXCEPT ![agent_timer] = @ + 1]
       /\ last' = [CallRecord("followDrive") EXCEPT
                      !.env = env, !.raised = m.raised,
                      !.result = IF m.raised THEN 0 ELSE DriveResult(res.r),
                      !.fire_result = m.fire_result, !.log = m.log,
                      !.since_fired = since_fired]
       /\ trigger_checks' =
             [n \in DOMAIN trigger_checks |->
                 LET ce == CHOOSE x \in CompetenceElements : x.name = n
                 IN IF (Logged(m.log, "CompetenceElement.isReady", n, 0)
                        \/ Logged(m.log, "CompetenceElement.isReady", n, 1))
                       /\ TriggerFire(ce.trigger, env)
                    THEN Min(trigger_checks[n] + 1, MaxCount)
                    ELSE trigger_checks[n]]
       /\ since_fired' =
             [n \in DOMAIN since_fired |->
                 IF Logged(m.log, "DriveElement.fire", n, 1) THEN 0
                 ELSE IF since_fired[n] < 0 THEN -1
                 ELSE Min(since_fired[n] + 1, MaxCount)]
       /\ invocations' =
             [a \in DOMAIN invocations |->
                 IF \E i \in DOMAIN m.log : m.log[i].op = "Action.fire" /\ m.log[i].id = a
                 THEN Min(invocations[a] + 1, MaxCount)
                 ELSE invocations[a]]
       /\ fires' =
             [n \in DOMAIN fires |->
                 fires[n] + Cardinality({i \in DOMAIN m.log :
                                m.log[i] = Ev("CompetenceElement.fire", n, 1)})]

FollowDrive ==
    /\ status = "built"
    /\ timer[agent_timer] < MaxTime
    /\ \E env \in [scenario.senses -> SenseValues],
          acts \in [scenario.actions -> BOOLEAN] : AgentFollowDrive(env, acts)
    /\ UNCHANGED <<scenario, status, build_error, tree, agent_timer, input, lineno, parser, sensing>>

\* DriveCollection.reset: every drive element back to its root, never fired
DriveCollectionReset ==
    /\ status = "built"
    /\ element' = [n \in DOMAIN element |->
                      (CHOOSE de \in DriveElements : de.name = n).root]
    /\ last_fired' = [n \in DOMAIN last_fired |-> InitialLastFired]
    /\ since_fired' = [n \in DOMAIN since_fired |-> -1]
    /\ last' = CallRecord("DriveCollection.reset")
    /\ UNCHANGED <<scenario, status, build_error, tree, element_idx, retries, timer,
                   agent_timer, trigger_checks, invocations, fires, loop_ends, input,
                   lineno, parser, sensing>>

\* variant: reset() also resets the action patterns the elements target
CompetenceResetWithTargets(c) ==
    /\ status = "built"
    /\ retries' = [n \in DOMAIN retries |->
                      IF \E ce \in CompetenceElementsOf(c) : ce.name = n
                      THEN 0 ELSE retries[n]]
    /\ element_idx' = [n \in DOMAIN element_idx |->
                          IF \E ce \in CompetenceElementsOf(c) :
                                ce.element = Ref("ActionPattern", n)
                          THEN 0 ELSE element_idx[n]]
    /\ trigger_checks' = [n \in DOMAIN trigger_checks |->
                            IF \E ce \in CompetenceElementsOf(c) : ce.name = n
                            THEN 0 ELSE trigger_checks[n]]
    /\ fires' = [n \in DOMAIN fires |->
                    IF \E ce \in CompetenceElementsOf(c) : ce.name = n
                    THEN 0 ELSE fires[n]]
    /\ last' = CallRecord("Competence.reset")
    /\ UNCHANGED <<scenario, status, build_error, tree, element,
                   last_fired, timer, agent_timer, since_fired, invocations, loop_ends,
                   input, lineno, parser, sensing>>

\* Competence.reset: the retry counters of the competence's own elements
CompetenceReset(c) ==
    /\ status = "built"
    /\ retries' = [n \in DOMAIN retries |->
                      IF \E ce \in CompetenceElementsOf(c) : ce.name = n
                      THEN 0 ELSE retries[n]]
    /\ trigger_checks' = [n \in DOMAIN trigger_checks |->
                            IF \E ce \in CompetenceElementsOf(c) : ce.name = n
                            THEN 0 ELSE trigger_checks[n]]
    /\ fires' = [n \in DOMAIN fires |->
                    IF \E ce \in CompetenceElementsOf(c) : ce.name = n
                    THEN 0 ELSE fires[n]]
    /\ last' = CallRecord("Competence.reset")
    /\ UNCHANGED <<scenario, status, build_error, tree, element_idx, element,
                   last_fired, timer, agent_timer, since_fired, invocations, loop_ends,
                   input, lineno, parser, sensing>>

\* ActionPattern.reset
ActionPatternReset(ap) ==
    /\ status = "built"
    /\ element_idx' = [element_idx EXCEPT ![ap] = 0]
    /\ last' = CallRecord("ActionPattern.reset")
    /\ UNCHANGED <<scenario, status, build_error, tree, retries, element,
                   last_fired, timer, agent_timer, trigger_checks, since_fired,
                   invocations, fires, loop_ends, input, lineno, parser, sensing>>

ResetCompetence == \E c \in DOMAIN tree.competences : CompetenceReset(c)

ResetActionPattern == \E ap \in DOMAIN tree.actionpatterns : ActionPatternReset(ap)

Next ==
    \/ BuildPlan
    \/ FollowDrive
    \/ DriveCollectionReset
    \/ ResetCompetence
    \/ ResetActionPattern

Spec == Init /\ [][Next]_vars

\* ------------------------------------------------------------------------
\* The host replaces the agent's timer between passes
\* ------------------------------------------------------------------------
\* the most timer objects an agent is given
MaxTimers == 2

\* Agent.setSteppedTimer: setTimer(SteppedTimer()) stores a new timer
\* object in Agent._timer and resets it
SetSteppedTimer ==
    /\ status = "built"
    /\ Len(timer) < MaxTimers
    /\ timer' = Append(timer, 0)
    /\ loop_ends' = Append(loop_ends, 0)
    /\ agent_timer' = Len(timer) + 1
    /\ last' = CallRecord("setSteppedTimer")
    /\ UNCHANGED <<scenario, status, build_error, tree, element_idx, retries, element,
                   last_fired, trigger_checks, since_fired, invocations, fires, input,
                   lineno, parser, sensing>>

\* an agent on a plan with frequency-gated drive elements
RetimeInit ==
    /\ Init
    /\ scenario \in {ScenarioFreq, ScenarioGoal}

RetimeNext ==
    \/ BuildPlan
    \/ FollowDrive
    \/ SetSteppedTimer

SpecRetime == RetimeInit /\ [][RetimeNext]_vars

\* ------------------------------------------------------------------------
\* The stepped timer on its own: two SteppedTimer objects and a host that
\* calls their methods in any order
\* ------------------------------------------------------------------------
\* the engine's variables, which the timer's methods do not touch
enginevars == <<scenario, status, build_error, tree, element_idx, retries, element,
                last_fired, agent_timer, trigger_checks, since_fired, invocations,
                fires>>

\* no agent: nothing was parsed or built
EngineIdle ==
    /\ scenario = ScenarioA
    /\ status = "idle"
    /\ build_error = NoError
    /\ tree = NoTree
    /\ element_idx = <<>>
    /\ retries = <<>>
    /\ element = <<>>
    /\ last_fired = <<>>
    /\ agent_timer = 0
    /\ trigger_checks = <<>>
    /\ since_fired = <<>>
    /\ invocations = <<>>
    /\ fires = <<>>

\* the arguments a host passes to setLoopFreq
LoopFreqs == {0, 50}

\* the record of a call of a timer method on the timer object t
TimerCall(op, t, args) == [CallRecord(op) EXCEPT !.env = <<t>> \o args]

\* SteppedTimer.__init__ of both objects: _time = 0, then TimerBase.__init__
\* calls reset()
TimerInit ==
    /\ EngineIdle
    /\ timer = [t \in 1..2 |-> SteppedTimerReset(0)]
    /\ loop_ends = [t \in 1..2 |-> 0]
    /\ LexerIdle
    /\ last = CallRecord("SteppedTimer.__init__")

TimerReset ==
    \E t \in DOMAIN timer :
        /\ timer' = [timer EXCEPT ![t] = SteppedTimerReset(@)]
        /\ loop_ends' = [loop_ends EXCEPT ![t] = 0]
        /\ last' = TimerCall("SteppedTimer.reset", t, <<>>)
        /\ UNCHANGED <<enginevars, input, lineno, parser, sensing>>

TimerLoopEnd ==
    \E t \in DOMAIN timer :
        /\ timer[t] < MaxTime
        /\ timer' = [timer EXCEPT ![t] = SteppedTimerLoopEnd(@)]
        /\ loop_ends' = [loop_ends EXCEPT ![t] = @ + 1]
        /\ last' = TimerCall("SteppedTimer.loopEnd", t, <<>>)
        /\ UNCHANGED <<enginevars, input, lineno, parser, sensing>>

TimerLoopWait ==
    \E t \in DOMAIN timer :
        /\ timer' = [timer EXCEPT ![t] = SteppedTimerLoopWait(@)]
        /\ last' = TimerCall("SteppedTimer.loopWait", t, <<>>)
        /\ UNCHANGED <<enginevars, loop_ends, input, lineno, parser, sensing>>

TimerSetLoopFreq ==
    \E t \in DOMAIN timer, loop_freq \in LoopFreqs :
        /\ timer' = [timer EXCEPT ![t] = SteppedTimerSetLoopFreq(@, loop_freq)]
        /\ last' = TimerCall("SteppedTimer.setLoopFreq", t, <<loop_freq>>)
        /\ UNCHANGED <<enginevars, loop_ends, input, lineno, parser, sensing>>

TimerNext ==
    \/ TimerReset
    \/ TimerLoopEnd
    \/ TimerLoopWait
    \/ TimerSetLoopFreq

SpecTimer == TimerInit /\ [][TimerNext]_vars

\* ------------------------------------------------------------------------
\* The parser's conversion of frequencies and times, applied to a unit token
\* and an integer value
\* ------------------------------------------------------------------------
\* the unit tokens of freq-unit and of time-unit
FreqUnits == {"HOURS", "MINUTES", "SECONDS", "HZ", "PM", "NONE"}

TimeUnits == {"HOURS", "MINUTES", "SECONDS", "NONE"}

\* the values of the NUMINT tokens tried
NumInts == (0 - MaxValue)..MaxValue

Abs(n) == IF n < 0 THEN 0 - n ELSE n

\* long(a / b) for b # 0: Python's long() of a float drops the fraction
Long(a, b) ==
    LET q == Abs(a) \div Abs(b)
    IN IF (a < 0) # (b < 0) THEN 0 - q ELSE q

\* what a conversion gives: the period, or the exception of the division
Converted(period) == [error |-> "", period |-> period]

ZeroDivisionError == [error |-> "ZeroDivisionError", period |-> 0]

\* variant: the quotients are rounded down instead of cut off
ConvertFreqRoundsDown(unit, value) ==
    IF unit = "HOURS" THEN Converted(3600000 * value)
    ELSE IF unit = "MINUTES" THEN Converted(60000 * value)
    ELSE IF unit = "SECONDS" THEN Converted(1000 * value)
    ELSE IF unit = "HZ"
    THEN IF value = 0 THEN ZeroDivisionError
         ELSE Converted(IF value < 0 THEN 0 - ((1000 + Abs(value) - 1) \div Abs(value))
                        ELSE 1000 \div value)
    ELSE IF unit = "PM"
    THEN IF value = 0 THEN ZeroDivisionError
         ELSE Converted(IF value < 0 THEN 0 - ((60000 + Abs(value) - 1) \div Abs(value))
                        ELSE 60000 \div value)
    ELSE Converted(value)

\* LAPParser.freq, the processing of the frequency unit (value is the float
\* of an integer token)
ConvertFreq(unit, value) ==
    IF unit = "HOURS" THEN Converted(Long(3600000 * value, 1))
    ELSE IF unit = "MINUTES" THEN Converted(Long(60000 * value, 1))
    ELSE IF unit = "SECONDS" THEN Converted(Long(1000 * value, 1))
    ELSE IF unit = "HZ"
    THEN IF value = 0 THEN ZeroDivisionError ELSE Converted(Long(1000, value))
    ELSE IF unit = "PM"
    THEN IF value = 0 THEN ZeroDivisionError ELSE Converted(Long(60000, value))
    ELSE Converted(Long(value, 1))

\* LAPParser.time, the processing of the time unit
ConvertTime(unit, value) ==
    IF unit = "HOURS" THEN Converted(Long(3600000 * value, 1))
    ELSE IF unit = "MINUTES" THEN Converted(Long(60000 * value, 1))
    ELSE IF unit = "SECONDS" THEN Converted(Long(1000 * value, 1))
    ELSE Converted(Long(value, 1))

\* the record of a conversion of (unit, value)
Conversion(op, unit, value, res) ==
    [CallRecord(op) EXCEPT !.env = <<unit, value>>, !.raised = res.error # "",
                           !.result = res.period]

\* the parser has read a unit token and a NUMINT token
UnitInit ==
    /\ EngineIdle
    /\ timer = <<0>>
    /\ loop_ends = <<0>>
    /\ LexerIdle
    /\ \E unit \in FreqUnits, value \in NumInts :
          last = Conversion("LAPParser.numfloat", unit, value, Converted(0))

\* LAPParser.freq
ParseFreq ==
    /\ last.op = "LAPParser.numfloat"
    /\ last' = Conversion("LAPParser.freq", last.env[1], last.env[2],
                          ConvertFreq(last.env[1], last.env[2]))
    /\ UNCHANGED <<enginevars, timer, loop_ends, input, lineno, parser, sensing>>

\* LAPParser.time: time_unit accepts the four time units
ParseTime ==
    /\ last.op = "LAPParser.numfloat"
    /\ last.env[1] \in TimeUnits
    /\ last' = Conversion("LAPParser.time", last.env[1], last.env[2],
                          ConvertTime(last.env[1], last.env[2]))
    /\ UNCHANGED <<enginevars, timer, loop_ends, input, lineno, parser, sensing>>

UnitNext ==
    \/ ParseFreq
    \/ ParseTime

SpecUnits == UnitInit /\ [][UnitNext]_vars

\* ------------------------------------------------------------------------
\* The lexer of .lap files (texts are strings, characters are strings of
\* length 1)
\* ------------------------------------------------------------------------
\* the character of s at position i
Ch(s, i) == SubSeq(s, i, i)

\* the characters of a string
CharsOf(s) == {Ch(s, i) : i \in 1..Len(s)}

\* LAPLexer.separating_chars
separating_chars == CharsOf(" ()\n\r\t")

\* LAPLexer.newline
newline == "\n"

Letters == CharsOf("abcdefghijklmnopqrstuvwxyz")

Capitals == CharsOf("ABCDEFGHIJKLMNOPQRSTUVWXYZ")

Digits == CharsOf("0123456789")

\* the characters a name goes on with
NameChars == Letters \cup Capitals \cup Digits \cup {"_", "-"}

\* the lower-case letter of a capital
LowerCase ==
    [c \in Capitals |->
        Ch("abcdefghijklmnopqrstuvwxyz",
           CHOOSE i \in 1..26 : Ch("ABCDEFGHIJKLMNOPQRSTUVWXYZ", i) = c)]

\* the lower-case form of a string, for the (?i) patterns
RECURSIVE Lower(_)
Lower(s) ==
    IF s = "" THEN ""
    ELSE LET c == Ch(s, 1)
         IN (IF c \in Capitals THEN LowerCase[c] ELSE c) \o Lower(Tail(s))

\* whether s begins with the string p
StartsWith(s, p) == Len(s) >= Len(p) /\ SubSeq(s, 1, Len(p)) = p

\* every character of s is in chars
AllIn(s, chars) == \A i \in 1..Len(s) : Ch(s, i) \in chars

\* s without one leading character c, if it has one
Without(s, c) == IF s # "" /\ Ch(s, 1) = c THEN Tail(s) ELSE s

\* the number of newlines in s
Newlines(s) == Cardinality({i \in 1..Len(s) : Ch(s, i) = newline})

\* LAPLexer.subs_pattern, (#|;)[^\n]*: the character i of inputStr is removed
\* if a "#" or a ";" stands before it on its line, or is one itself
Substituted(inputStr, i) ==
    /\ Ch(inputStr, i) # newline
    /\ \E j \in 1..i :
          /\ Ch(inputStr, j) \in {"#", ";"}
          /\ \A k \in j..i : Ch(inputStr, k) # newline

\* what the substitution leaves of the characters lo..hi of inputStr
RECURSIVE Substitute(_, _, _)
Substitute(inputStr, lo, hi) ==
    IF lo > hi THEN ""
    ELSE IF lo = hi
    THEN IF Substituted(inputStr, lo) THEN "" ELSE Ch(inputStr, lo)
    ELSE Substitute(inputStr, lo, (lo + hi) \div 2)
         \o Substitute(inputStr, (lo + hi) \div 2 + 1, hi)

\* LAPLexer.setInput: the preprocessing
SetInput(inputStr) ==
    IF \A i \in 1..Len(inputStr) : Ch(inputStr, i) \notin {"#", ";"} THEN inputStr
    ELSE Substitute(inputStr, 1, Len(inputStr))

\* (==|=|!=|<|>|<=|>=) matched at the start of s: the first alternative
\* that matches, so that "<" is what matches of "<=" and ">" of ">="
PredicateMatch(s) ==
    IF StartsWith(s, "==") THEN "=="
    ELSE IF StartsWith(s, "=") THEN "="
    ELSE IF StartsWith(s, "!=") THEN "!="
    ELSE IF StartsWith(s, "<") THEN "<"
    ELSE IF StartsWith(s, ">") THEN ">"
    ELSE ""

\* ([eE][\+\-]?\d+)? matches all of s
IsExponent(s) ==
    \/ s = ""
    \/ /\ Ch(s, 1) \in {"e", "E"}
       /\ LET d == IF Len(s) >= 2 /\ Ch(s, 2) \in {"+", "-"}
                   THEN SubSeq(s, 3, Len(s)) ELSE Tail(s)
          IN d # "" /\ AllIn(d, Digits)

\* \-?(\d*\.\d+|\d+\.)([eE][\+\-]?\d+)? matches all of s
IsNumFloat(s) ==
    LET body == Without(s, "-")
    IN \E dot \in 1..Len(body), end \in 1..Len(body) :
          /\ dot <= end
          /\ Ch(body, dot) = "."
          /\ AllIn(SubSeq(body, 1, dot - 1), Digits)
          /\ AllIn(SubSeq(body, dot + 1, end), Digits)
          /\ end > dot \/ dot > 1
          /\ IsExponent(SubSeq(body, end + 1, Len(body)))

\* \-?[0-9]+ matches all of s
IsNumInt(s) ==
    LET body == Without(s, "-") IN body # "" /\ AllIn(body, Digits)

\* (?i)[a-z][a-z0-9_\-]* matches all of s
IsName(s) ==
    /\ s # ""
    /\ Ch(s, 1) \in Letters \cup Capitals
    /\ AllIn(Tail(s), NameChars)

\* LAPLexer.tokens: the first token whose pattern matches all of sep_str
\* ("": none does)
TokenType(sep_str) ==
    IF sep_str \in {"AP", "C", "DC", "RDC", "SDC", "SRDC"} THEN sep_str
    ELSE IF sep_str = "nil" THEN "NIL"
    ELSE IF Lower(sep_str) \in {"drives", "elements", "trigger", "goal", "hours",
                                "minutes", "seconds", "hz", "pm", "none",
                                "documentation"}
    THEN CHOOSE t \in {"DRIVES", "ELEMENTS", "TRIGGER", "GOAL", "HOURS", "MINUTES",
                       "SECONDS", "HZ", "PM", "NONE", "DOCUMENTATION"} :
             Lower(t) = Lower(sep_str)
    ELSE IF sep_str # "" /\ PredicateMatch(sep_str) = sep_str THEN "PREDICATE"
    ELSE IF IsNumFloat(sep_str) THEN "NUMFLOAT"
    ELSE IF IsNumInt(sep_str) THEN "NUMINT"
    ELSE IF IsName(sep_str) THEN "NAME"
    ELSE IF IsName(Without(sep_str, "'")) THEN "STRINGVALUE"
    ELSE ""

\* class Token; NoToken is the None that token() returns at the end of input
Token(token, value) == [token |-> token, value |-> value]

NoToken == Token("None", "")

\* LAPLexer.full_tokens: the length of what "[^"]*" matches at the start of
\* the input (0: no match)
FullTokenLength(s) ==
    IF s # "" /\ Ch(s, 1) = "\"" /\ \E j \in 2..Len(s) : Ch(s, j) = "\""
    THEN CHOOSE j \in 2..Len(s) :
             Ch(s, j) = "\"" /\ \A k \in 2..(j - 1) : Ch(s, k) # "\""
    ELSE 0

\* the string up to the closest separating character
SepStr(s) ==
    IF \E i \in 1..Len(s) : Ch(s, i) \in separating_chars
    THEN SubSeq(s, 1, (CHOOSE i \in 1..Len(s) :
                          /\ Ch(s, i) \in separating_chars
                          /\ \A k \in 1..(i - 1) : Ch(s, k) \notin separating_chars) - 1)
    ELSE s

\* one iteration of the loop of token(): what it matched and how many
\* characters it took off the input
Iteration(kind, removed) == [kind |-> kind, removed |-> removed]

\* the state of the lexer after token(), the token returned and the
\* iterations the call made
Lexed(in, line, token, iterations) ==
    [input |-> in, lineno |-> line, token |-> token, iterations |-> iterations]

\* variant: an illegal character is reported and left in the input
RECURSIVE LexerTokenKeepsIllegal(_, _, _)
LexerTokenKeepsIllegal(in, line, iterations) ==
    IF in = "" THEN Lexed(in, line, NoToken, iterations)
    ELSE IF FullTokenLength(in) > 0
    THEN LET matched_str == SubSeq(in, 1, FullTokenLength(in))
         IN Lexed(SubSeq(in, Len(matched_str) + 1, Len(in)),
                  line + Newlines(matched_str), Token("COMMENT", matched_str),
                  Append(iterations, Iteration("full", Len(matched_str))))
    ELSE IF Ch(in, 1) \in separating_chars
    THEN LET char == Ch(in, 1)
             line1 == IF char = newline THEN line + 1 ELSE line
             its == Append(iterations, Iteration("separator", 1))
         IN IF char = "(" THEN Lexed(Tail(in), line1, Token("LPAREN", char), its)
            ELSE IF char = ")" THEN Lexed(Tail(in), line1, Token("RPAREN", char), its)
            ELSE LexerTokenKeepsIllegal(Tail(in), line1, its)
    ELSE LET sep_str == SepStr(in)
         IN IF TokenType(sep_str) # ""
            THEN Lexed(SubSeq(in, Len(sep_str) + 1, Len(in)),
                       line + Newlines(sep_str), Token(TokenType(sep_str), sep_str),
                       Append(iterations, Iteration("token", Len(sep_str))))
            ELSE Lexed(in, line, NoToken, Append(iterations, Iteration("illegal", 0)))

\* LAPLexer.token, from the top of its loop
RECURSIVE LexerToken(_, _, _)
LexerToken(in, line, iterations) ==
    IF in = "" THEN Lexed(in, line, NoToken, iterations)
    ELSE IF FullTokenLength(in) > 0
    THEN LET matched_str == SubSeq(in, 1, FullTokenLength(in))
         IN Lexed(SubSeq(in, Len(matched_str) + 1, Len(in)),
                  line + Newlines(matched_str), Token("COMMENT", matched_str),
                  Append(iterations, Iteration("full", Len(matched_str))))
    ELSE IF Ch(in, 1) \in separating_chars
    THEN LET char == Ch(in, 1)
             line1 == IF char = newline THEN line + 1 ELSE line
             its == Append(iterations, Iteration("separator", 1))
         IN IF char = "(" THEN Lexed(Tail(in), line1, Token("LPAREN", char), its)
            ELSE IF char = ")" THEN Lexed(Tail(in), line1, Token("RPAREN", char), its)
            ELSE LexerToken(Tail(in), line1, its)
    ELSE LET sep_str == SepStr(in)
         IN IF TokenType(sep_str) # ""
            THEN Lexed(SubSeq(in, Len(sep_str) + 1, Len(in)),
                       line + Newlines(sep_str), Token(TokenType(sep_str), sep_str),
                       Append(iterations, Iteration("token", Len(sep_str))))
            ELSE LexerToken(Tail(in), line, Append(iterations, Iteration("illegal", 1)))

\* the characters the texts given to the lexer are made of: a parenthesis, a
\* newline, a quote, a letter, a predicate character, a character of no
\* token and a comment character
LexAlphabet == {"(", "\n", "\"", "C", "=", "@", ";"}

\* the texts of at most n characters
RECURSIVE TextsUpTo(_)
TextsUpTo(n) ==
    IF n = 0 THEN {""}
    ELSE LET shorter == TextsUpTo(n - 1)
         IN shorter \cup {c \o t : c \in LexAlphabet, t \in shorter}

\* the comparison operators of a full sense
ComparisonOperators == {"==", "!=", "<", ">", "<=", ">="}

\* a comparison operator as a run between separating characters
OperatorTexts == {o \o t : o \in ComparisonOperators, t \in {"", ")"}}

\* LAPLexer(inputStr): __init__ calls setInput
LexInit ==
    /\ EngineIdle
    /\ timer = <<0>>
    /\ loop_ends = <<0>>
    /\ \E inputStr \in TextsUpTo(MaxLen) \cup OperatorTexts :
          input = SetInput(inputStr)
    /\ lineno = 1
    /\ parser = NoParser
    /\ sensing = NoSensing
    /\ last = CallRecord("LAPLexer.setInput")

\* LAPLexer.token
LexToken ==
    /\ \E lexed \in {LexerToken(input, lineno, <<>>)} :
          /\ input' = lexed.input
          /\ lineno' = lexed.lineno
          /\ last' = [CallRecord("LAPLexer.token") EXCEPT
                         !.result = lexed.token, !.log = lexed.iterations]
    /\ UNCHANGED <<enginevars, timer, loop_ends, parser, sensing>>

LexNext == LexToken

\* the host goes on calling token()
SpecLexer == LexInit /\ [][LexNext]_vars /\ WF_vars(LexToken)

\* ------------------------------------------------------------------------
\* The recursive descent parser of .lap files. A parser state holds the
\* lexer (input, lineno), the current token t, the exception raised (if
\* any), and the counters of LAPParser.plan; every method maps a state to
\* the state after it, and passes a state with an exception on unchanged.
\* ------------------------------------------------------------------------
\* no exception
NoException == [type |-> "", msg |-> ""]

\* raise ParseError, msg
ParseError(msg) == [type |-> "ParseError", msg |-> msg]

Failed(p) == p.error # NoException

\* variant: the lines are counted from 0
ParserErrorCountsFromZero(p, msg) ==
    [p EXCEPT !.error = ParseError("Line " \o ToString(p.lineno - 1) \o ": " \o msg)]

\* LAPParser.error
ParserError(p, msg) ==
    [p EXCEPT !.error = ParseError("Line " \o ToString(p.lineno) \o ": " \o msg)]

\* LAPParser.nextToken
NextToken(p) ==
    Bind(p, LAMBDA x :
        IF Failed(x) THEN x
        ELSE Bind(LexerToken(x.input, x.lineno, <<>>), LAMBDA lexed :
                [x EXCEPT !.input = lexed.input, !.lineno = lexed.lineno,
                          !.t = lexed.token]))

\* LAPParser.match, the check for a current token
Match(p) ==
    Bind(p, LAMBDA x :
        IF Failed(x) \/ x.t # NoToken THEN x
        ELSE [x EXCEPT !.error = ParseError("Unexpected End Of File (EOF)")])

\* LAPParser.match, the result for a state with a current token
Is(x, allowed_tokens) == x.t.token \in allowed_tokens

\* if not self.match(allowed_tokens): self.error(before + value + after)
Expect(p, allowed_tokens, before, after) ==
    Bind(Match(p), LAMBDA x :
        IF Failed(x) \/ Is(x, allowed_tokens) THEN x
        ELSE ParserError(x, before \o x.t.value \o after))

\* the same, followed by self.nextToken()
Accept(p, allowed_tokens, before, after) ==
    NextToken(Expect(p, allowed_tokens, before, after))

\* LAPParser.opt_comment
OptComment(p) ==
    Bind(Match(p), LAMBDA x :
        IF Failed(x) \/ ~Is(x, {"COMMENT"}) THEN x ELSE NextToken(x))

\* LAPParser.docstring
Docstring(p) ==
    Accept(Accept(Accept(Accept(Accept(p,
        {"DOCUMENTATION"}, "Expected 'documentation' as start of docstring instead of '", "'"),
        {"COMMENT"}, "Expected a comment of form \"...\" instead of '", "' in documentation"),
        {"COMMENT"}, "Expected a comment of form \"...\" instead of '", "' in documentation"),
        {"COMMENT"}, "Expected a comment of form \"...\" instead of '", "' in documentation"),
        {"RPAREN"}, "Expected ')' to end docstring instead of '", "'")

\* LAPParser.predicate
Predicate(p) ==
    Accept(p, {"PREDICATE"}, "Expected a valid sense predicate instead of '", "'")

\* LAPParser.value
Value(p) ==
    Accept(p, {"NUMINT", "NUMFLOAT", "NAME", "STRINGVALUE", "NIL"},
           "Expected a valid sense value instead of '", "'")

\* LAPParser.full_sense
FullSenseRule(p) ==
    Bind(Match(Accept(Accept(p, {"LPAREN"}, "Expected '(' instead of '", "'"),
                      {"NAME"}, "Expected sense name instead of '", "'")),
         LAMBDA x :
            Accept(IF Failed(x) \/ Is(x, {"RPAREN"}) THEN x
                   ELSE Bind(Match(Value(x)), LAMBDA y :
                           IF Failed(y) \/ Is(y, {"RPAREN"}) THEN y ELSE Predicate(y)),
                   {"RPAREN"}, "Expected ')' instead of '", "'"))

\* LAPParser.senses, the loop over the elements
RECURSIVE SensesLoop(_)
SensesLoop(p) ==
    Bind(Match(p), LAMBDA x :
        IF Failed(x) \/ Is(x, {"RPAREN"}) THEN x
        ELSE Bind(Expect(x, {"NAME", "LPAREN"},
                         "Expected either a sense-act name or '(' instead of '", "'"),
                  LAMBDA y :
                     IF Failed(y) THEN y
                     ELSE IF Is(y, {"NAME"}) THEN SensesLoop(NextToken(y))
                     ELSE SensesLoop(FullSenseRule(y))))

\* LAPParser.senses
Senses(p) ==
    Bind(Match(p), LAMBDA x :
        IF Failed(x) THEN x
        ELSE IF Is(x, {"NIL"}) THEN NextToken(x)
        ELSE NextToken(SensesLoop(Accept(x, {"LPAREN"}, "Expected '(' instead of '", "'"))))

\* LAPParser.goal
Goal(p) ==
    Accept(Senses(Accept(p, {"GOAL"}, "Expected 'goal' instead of '", "'")),
           {"RPAREN"}, "Expected ')' as the end of a goal instead of '", "'")

\* LAPParser.trigger
Trigger(p) ==
    Accept(Senses(Accept(p, {"TRIGGER"}, "Expected 'trigger' instead of '", "'")),
           {"RPAREN"}, "Expected ')' as the end of a trigger instead of '", "'")

\* the digits of a number token are all 0, so that float(val) is 0.0
IsZero(val) ==
    LET mantissa == IF \E i \in 1..Len(val) : Ch(val, i) \in {"e", "E"}
                    THEN SubSeq(val, 1, (CHOOSE i \in 1..Len(val) :
                                            Ch(val, i) \in {"e", "E"}) - 1)
                    ELSE val
    IN \A i \in 1..Len(mantissa) : Ch(mantissa, i) \in {"0", ".", "-"}

\* LAPParser.numfloat, followed by the ")" of freq and time; divides: the
\* unit is one whose conversion divides by the value
NumFloatAndClose(p, divides) ==
    Bind(Expect(p, {"NUMINT", "NUMFLOAT"},
                "Expected a floating-point number instead of '", "'"),
         LAMBDA x :
            IF Failed(x) THEN x
            ELSE Bind(Accept(NextToken(x), {"RPAREN"}, "Expected ')' instead of '", "'"),
                      LAMBDA y :
                         IF ~Failed(y) /\ divides /\ IsZero(x.t.value)
                         THEN [y EXCEPT !.error = [type |-> "ZeroDivisionError",
                                                   msg |-> "float division"]]
                         ELSE y))

\* LAPParser.freq with LAPParser.freq_unit
Freq(p) ==
    Bind(Expect(p, FreqUnits, "Expected a valid frequency unit instead of '", "'"),
         LAMBDA x :
            IF Failed(x) THEN x
            ELSE NumFloatAndClose(NextToken(x), Is(x, {"HZ", "PM"})))

\* LAPParser.time with LAPParser.time_unit
Time(p) ==
    Bind(Expect(p, TimeUnits, "Expected a valid time unit instead of '", "'"),
         LAMBDA x :
            IF Failed(x) THEN x ELSE NumFloatAndClose(NextToken(x), FALSE))

\* LAPParser.drive_element, after the name of the element
DriveElementNamed(p, name) ==
    Bind(Expect(p, {"NAME", "LPAREN", "NIL"},
                "Expected name of triggerable, '(' or 'nil' instead of '",
                "' in drive element '" \o name \o "'"),
         LAMBDA x :
            IF Failed(x) THEN x
            ELSE Bind(Match(NextToken(
                         IF Is(x, {"NAME"}) THEN x
                         ELSE Expect(IF Is(x, {"NIL"}) THEN NextToken(x)
                                     ELSE Trigger(NextToken(x)),
                                     {"NAME"},
                                     "Expected name of triggerable instead of '",
                                     "' in drive elements '" \o name \o "'"))),
                      LAMBDA y :
                         Accept(OptComment(
                                   IF Failed(y) \/ ~Is(y, {"LPAREN", "NIL"}) THEN y
                                   ELSE IF Is(y, {"NIL"}) THEN NextToken(y)
                                   ELSE Freq(NextToken(y))),
                                {"RPAREN"}, "Expected ')' instead of '",
                                "' as the end of drive element '" \o name \o "'")))

\* LAPParser.drive_element
DriveElementRule(p) ==
    Bind(Expect(Accept(p, {"LPAREN"}, "Expected '(' to start drive element instead of '", "'"),
                {"NAME"}, "Expected valid drive element name instead of '", "'"),
         LAMBDA x :
            IF Failed(x) THEN x ELSE DriveElementNamed(NextToken(x), x.t.value))

\* while self.match(('LPAREN', )): elements.append(self.drive_element())
RECURSIVE DriveElementLoop(_)
DriveElementLoop(p) ==
    Bind(Match(p), LAMBDA x :
        IF Failed(x) \/ ~Is(x, {"LPAREN"}) THEN x
        ELSE DriveElementLoop(DriveElementRule(x)))

\* LAPParser.drive_elements
DriveElementsRule(p) ==
    Accept(DriveElementLoop(
               Expect(Accept(p, {"LPAREN"},
                             "Expected '(' to start list of drive elements instead of '", "'"),
                      {"LPAREN"}, "Expected '(' to start drive element instead of '", "'")),
           {"RPAREN"}, "Expected ')' to end list of drive elements instead of '", "'")

\* while self.match(('LPAREN', )): priorities.append(self.drive_elements())
RECURSIVE DrivePrioritiesLoop(_)
DrivePrioritiesLoop(p) ==
    Bind(Match(p), LAMBDA x :
        IF Failed(x) \/ ~Is(x, {"LPAREN"}) THEN x
        ELSE DrivePrioritiesLoop(DriveElementsRule(x)))

\* LAPParser.drive_priorities
DrivePriorities(p) ==
    DrivePrioritiesLoop(
        Expect(p, {"LPAREN"},
               "Expected '(' that starts list of drive elements instead of '", "'"))

\* LAPParser.drive_collection, after the name of the collection
DriveCollectionNamed(p, name) ==
    Bind(Match(p), LAMBDA x :
        IF Failed(x) THEN x
        ELSE Accept(Accept(
                DrivePriorities(
                    Accept(IF Is(x, {"NIL"})
                           THEN Accept(NextToken(x), {"LPAREN"},
                                       "Expected '(' after 'nil' instead of '",
                                       "' in drive collection '" \o name \o "'")
                           ELSE Bind(Match(Accept(x, {"LPAREN"},
                                        "Expected '(' after drive collection name instead of '",
                                        "' in drive collection '" \o name \o "'")),
                                     LAMBDA y :
                                        IF Failed(y) \/ ~Is(y, {"GOAL"}) THEN y
                                        ELSE Accept(Goal(y), {"LPAREN"},
                                                    "Expected '(' after goal instead of '",
                                                    "' in drive collection '" \o name \o "'")),
                           {"DRIVES"}, "Expected 'drives' instead of '",
                           "' in drive collection '" \o name \o "'")),
                {"RPAREN"}, "Expected ')' to end drive collection instead of '",
                "' in drive collection '" \o name \o "'"),
                {"RPAREN"}, "Expected ')' to end drive collection instead of '",
                "' in drive collection '" \o name \o "'"))

\* LAPParser.drive_collection with LAPParser.drive_collection_id
DriveCollectionRule(p) ==
    Bind(Expect(Accept(p, {"DC", "RDC", "SDC", "SRDC"},
                       "Expected the drive collection type instead of '", "'"),
                {"NAME"}, "Expected a valid drive collection name instead of '", "'"),
         LAMBDA x :
            IF Failed(x) THEN x ELSE DriveCollectionNamed(NextToken(x), x.t.value))

\* LAPParser.competence_element, after the name of the element
CompetenceElementNamed(p, name) ==
    Bind(Match(p), LAMBDA x :
        Bind(Match(Accept(IF Failed(x) THEN x
                          ELSE IF Is(x, {"NIL"}) THEN NextToken(x)
                          ELSE IF Is(x, {"LPAREN"}) THEN Trigger(NextToken(x))
                          ELSE x,
                          {"NAME"}, "Expected name of triggerable instead of '",
                          "' in competence '" \o name \o "'")),
             LAMBDA y :
                Accept(OptComment(IF Failed(y) \/ ~Is(y, {"NIL", "NUMINT"}) THEN y
                                  ELSE NextToken(y)),
                       {"RPAREN"}, "Expected ')' to end competence element instead of '",
                       "' in competence '" \o name \o "'")))

\* LAPParser.competence_element
CompetenceElementRule(p) ==
    Bind(Expect(Accept(p, {"LPAREN"},
                       "Expected '(' to start a competence element instead of '", "'"),
                {"NAME"}, "Expected competence element name instead of '", "'"),
         LAMBDA x :
            IF Failed(x) THEN x ELSE CompetenceElementNamed(NextToken(x), x.t.value))

\* while self.match(('LPAREN', )): elements.append(self.competence_element())
RECURSIVE CompetenceElementLoop(_)
CompetenceElementLoop(p) ==
    Bind(Match(p), LAMBDA x :
        IF Failed(x) \/ ~Is(x, {"LPAREN"}) THEN x
        ELSE CompetenceElementLoop(CompetenceElementRule(x)))

\* LAPParser.competence_elements
CompetenceElementsRule(p) ==
    Accept(CompetenceElementLoop(
               Expect(Accept(p, {"LPAREN"},
                             "Expected '(' as start of a list of competence elements instead of '",
                             "'"),
                      {"LPAREN"}, "Expected '(' to start a competence element instead of '", "'")),
           {"RPAREN"}, "Expected ')' as end of a list of competence elements instead of '", "'")

\* while self.match(('LPAREN', )): priorities.append(self.competence_elements())
RECURSIVE CompetencePrioritiesLoop(_)
CompetencePrioritiesLoop(p) ==
    Bind(Match(p), LAMBDA x :
        IF Failed(x) \/ ~Is(x, {"LPAREN"}) THEN x
        ELSE CompetencePrioritiesLoop(CompetenceElementsRule(x)))

\* LAPParser.competence_priorities
CompetencePriorities(p) ==
    CompetencePrioritiesLoop(
        Expect(p, {"LPAREN"},
               "Expected '(' as start of a list of competence elements instead of '", "'"))

\* LAPParser.competence: if self.match(('GOAL', )): <goal> "("
CompetenceOptGoal(p, name) ==
    Bind(Match(p), LAMBDA x :
        IF Failed(x) \/ ~Is(x, {"GOAL"}) THEN x
        ELSE Accept(Goal(x), {"LPAREN"}, "Expected '(' after goal instead of '",
                    "' in competence '" \o name \o "'"))

\* LAPParser.competence: ( NIL | "(" <goal> | ) "(", at a NIL or a "("
CompetenceGoal(p, name) ==
    Bind(p, LAMBDA x :
        IF Failed(x) THEN x
        ELSE IF Is(x, {"NIL"})
        THEN Accept(NextToken(x), {"LPAREN"}, "Expected '(' after 'nil' for goal instead of '",
                    "' in competence '" \o name \o "'")
        ELSE CompetenceOptGoal(NextToken(x), name))

\* LAPParser.competence, after the name of the competence
CompetenceNamed(p, name) ==
    Bind(Expect(p, {"LPAREN", "NIL"},
                "Expected '(' or 'nil' after competence name instead of '",
                "' in competence '" \o name \o "'"),
         LAMBDA x :
            Accept(OptComment(Accept(CompetencePriorities(Accept(
                IF Failed(x) THEN x
                ELSE IF Is(x, {"NIL"})
                THEN CompetenceGoal(
                         Expect(NextToken(x), {"LPAREN", "NIL"},
                                "Expected '(' or 'nil' after 'nil' for time instead of '",
                                "' in competence '" \o name \o "'"), name)
                ELSE Bind(Match(NextToken(x)), LAMBDA y :
                        IF Failed(y) THEN y
                        ELSE IF Is(y, TimeUnits)
                        THEN CompetenceGoal(
                                 Expect(Time(y), {"LPAREN", "NIL"},
                                        "Expected '(' or 'nil' after time instead of '",
                                        "' in competence '" \o name \o "'"), name)
                        ELSE CompetenceOptGoal(y, name)),
                {"ELEMENTS"}, "Expected 'elements' as start of element instead of '",
                "' in competence '" \o name \o "'")),
                {"RPAREN"}, "Expected ')' to end competence elements instead of '",
                "' in competence '" \o name \o "'")),
                {"RPAREN"}, "Expected ')' to end competence instead of '",
                "' in competence '" \o name \o "'"))

\* LAPParser.competence
CompetenceRule(p) ==
    Bind(Expect(Accept(p, {"C"}, "Expected 'C' as start of competence instead of '", "'"),
                {"NAME"}, "Expected valid competence name instead of '", "'"),
         LAMBDA x :
            IF Failed(x) THEN x ELSE CompetenceNamed(NextToken(x), x.t.value))

\* while self.match(('NAME', 'LPAREN')): <full-sense> | NAME
RECURSIVE ActionPatternElementLoop(_)
ActionPatternElementLoop(p) ==
    Bind(Match(p), LAMBDA x :
        IF Failed(x) \/ ~Is(x, {"NAME", "LPAREN"}) THEN x
        ELSE IF Is(x, {"LPAREN"}) THEN ActionPatternElementLoop(FullSenseRule(x))
        ELSE ActionPatternElementLoop(NextToken(x)))

\* LAPParser.action_pattern_elements
ActionPatternElements(p) ==
    Accept(ActionPatternElementLoop(
               Expect(p, {"LPAREN", "NAME"},
                      "Expected an action pattern element name of '(' instead of '", "'")),
           {"RPAREN"}, "Expected ')' to end action pattern instead of '", "'")

\* LAPParser.action_pattern, after the name of the pattern
ActionPatternNamed(p, name) ==
    Bind(Match(p), LAMBDA x :
        Accept(OptComment(ActionPatternElements(
            IF Failed(x) THEN x
            ELSE IF Is(x, {"NIL"})
            THEN Accept(NextToken(x), {"LPAREN"}, "Expected '(' after 'nil' for time instead of '",
                        "' in action pattern '" \o name \o "'")
            ELSE IF Is(x, {"LPAREN"})
            THEN Bind(Match(NextToken(x)), LAMBDA y :
                    IF Failed(y) \/ ~Is(y, TimeUnits) THEN y
                    ELSE Accept(Time(y), {"LPAREN"}, "Expected '(' after time instead of '",
                                "' in action pattern '" \o name \o "'"))
            ELSE ParserError(x, "Expected '(' or 'nil' after action pattern name instead of '"
                                \o x.t.value \o "' in action pattern '" \o name \o "'"))),
            {"RPAREN"}, "Expected ')' instead of '", "' in action pattern '" \o name \o "'"))

\* LAPParser.action_pattern
ActionPatternRule(p) ==
    Bind(Expect(Accept(p, {"AP"}, "Expected 'AP' instead of '", "'"),
                {"NAME"}, "'", "' is not a valid name for an action pattern"),
         LAMBDA x :
            IF Failed(x) THEN x ELSE ActionPatternNamed(NextToken(x), x.t.value))

\* LAPParser.plan, after the loop: the plan was closed
PlanClosed(p) ==
    Bind(p, LAMBDA x :
        IF Failed(x) THEN x
        ELSE IF x.t # NoToken
        THEN ParserError(x, "Illegal token '" \o x.t.value \o "' after end of plan")
        ELSE IF x.dc = 0 /\ x.ap + x.c # 1
        THEN ParserError(x, "Illegal plan: A plan without a drive-collection only allows "
                            \o "for a SINLGE action-pattern OR a SINGLE competence")
        ELSE [x EXCEPT !.at = "done"])

\* variant: the loop of plan() without the check for a second drive collection
PlanIterationAnyCollections(p) ==
    Bind(Expect(p, {"LPAREN", "RPAREN"},
                "Expected '(' as start of documentation / competence / action-pattern / "
                \o "drive-collection, or ')' to end plan, instead of '", "'"),
         LAMBDA x :
            IF Failed(x) THEN x
            ELSE IF Is(x, {"RPAREN"}) THEN PlanClosed(NextToken(x))
            ELSE Bind(Match(NextToken(x)), LAMBDA y :
                    IF Failed(y) THEN y
                    ELSE IF Is(y, {"DOCUMENTATION"})
                    THEN IF y.ap + y.c + y.dc + y.d > 0
                         THEN ParserError(y, "Documentation only allowed as first element in plan")
                         ELSE Docstring([y EXCEPT !.d = @ + 1])
                    ELSE IF Is(y, {"C"}) THEN CompetenceRule([y EXCEPT !.c = @ + 1])
                    ELSE IF Is(y, {"AP"}) THEN ActionPatternRule([y EXCEPT !.ap = @ + 1])
                    ELSE IF Is(y, {"DC", "RDC", "SDC", "SRDC"})
                    THEN DriveCollectionRule([y EXCEPT !.dc = @ + 1])
                    ELSE ParserError(y, "Expected docstring / competence / action pattern or "
                                        \o "drive collection instead of '" \o y.t.value \o "'")))

\* LAPParser.plan, one iteration of its loop; the iteration that meets the
\* ")" of the plan leaves the loop and makes the checks that follow it
PlanIteration(p) ==
    Bind(Expect(p, {"LPAREN", "RPAREN"},
                "Expected '(' as start of documentation / competence / action-pattern / "
                \o "drive-collection, or ')' to end plan, instead of '", "'"),
         LAMBDA x :
            IF Failed(x) THEN x
            ELSE IF Is(x, {"RPAREN"}) THEN PlanClosed(NextToken(x))
            ELSE Bind(Match(NextToken(x)), LAMBDA y :
                    IF Failed(y) THEN y
                    ELSE IF Is(y, {"DOCUMENTATION"})
                    THEN IF y.ap + y.c + y.dc + y.d > 0
                         THEN ParserError(y, "Documentation only allowed as first element in plan")
                         ELSE Docstring([y EXCEPT !.d = @ + 1])
                    ELSE IF Is(y, {"C"}) THEN CompetenceRule([y EXCEPT !.c = @ + 1])
                    ELSE IF Is(y, {"AP"}) THEN ActionPatternRule([y EXCEPT !.ap = @ + 1])
                    ELSE IF Is(y, {"DC", "RDC", "SDC", "SRDC"})
                    THEN IF y.dc > 0
                         THEN ParserError(y, "Only a single drive-collection allowed")
                         ELSE DriveCollectionRule([y EXCEPT !.dc = @ + 1])
                    ELSE ParserError(y, "Expected docstring / competence / action pattern or "
                                        \o "drive collection instead of '" \o y.t.value \o "'")))

\* LAPParser.start and LAPParser.plan up to its loop
Start(p) ==
    Bind(Accept(NextToken(p), {"LPAREN"}, "Plan needs to start with '(' rather than '", "'"),
         LAMBDA x : IF Failed(x) THEN x ELSE [x EXCEPT !.at = "plan"])

\* the parser and its lexer as one parser state
ParserState == [parser EXCEPT !.input = input, !.lineno = lineno]

\* the parser's own part of a parser state
ParserOf(p) == [p EXCEPT !.input = "", !.lineno = 0]

\* the elements the plan texts are put together from
ElementKinds == {"DOC", "DC", "C", "AP"}

ElementText(kind) ==
    IF kind = "DOC" THEN "(documentation \"plan\" \"author\"\n \"a\nmemo\")\n"
    ELSE IF kind = "DC"
    THEN "(SDC life (goal ((s 1 =)))\n (drives ((e (trigger (s)) c (hz 2))\n (f nil a))))\n"
    ELSE IF kind = "C"
    THEN "(C c (minutes 1) (goal (s))\n (elements ((x (trigger ((s 0 !=))) a 2))))\n"
    ELSE "(AP p nil\n (a (s 1 ==) b))\n"

\* the sequences of at most n elements
RECURSIVE ElementSeqs(_)
ElementSeqs(n) ==
    IF n = 0 THEN {<<>>}
    ELSE LET shorter == ElementSeqs(n - 1)
         IN shorter \cup {<<k>> \o s : k \in ElementKinds, s \in shorter}

RECURSIVE ElementsText(_)
ElementsText(elements) ==
    IF elements = <<>> THEN ""
    ELSE ElementText(Head(elements)) \o ElementsText(Tail(elements))

\* the text of a plan of these elements
PlanText(elements) == "(" \o ElementsText(elements) \o ")\n"

\* the texts given to the parser: the plans of at most MaxElements elements,
\* and the plans of one element cut off after any number of characters
PlanInputs ==
    {[elements |-> s, text |-> PlanText(s)] : s \in ElementSeqs(MaxElements)}
    \cup {[elements |-> <<k>>, text |-> SubSeq(PlanText(<<k>>), 1, n)] :
             k \in ElementKinds, n \in 0..MaxCut}
    \cup {[elements |-> <<k>>, text |-> SubSeq(PlanText(<<k>>), 1, Len(PlanText(<<k>>)) - n)] :
             k \in ElementKinds, n \in 0..MaxCut}

\* LAPParser.parse: self._lex = LAPLexer(input_str)
ParserInit ==
    /\ EngineIdle
    /\ timer = <<0>>
    /\ loop_ends = <<0>>
    /\ \E in \in PlanInputs :
          /\ input = SetInput(in.text)
          /\ last = [CallRecord("LAPParser.parse") EXCEPT !.env = in]
    /\ lineno = 1
    /\ parser = NoParser
    /\ sensing = NoSensing

\* LAPParser.parse: return self.start()
ParseStart ==
    /\ parser.at = "start"
    /\ \E p \in {Start(ParserState)} :
          /\ input' = p.input
          /\ lineno' = p.lineno
          /\ parser' = ParserOf(p)
    /\ UNCHANGED <<enginevars, timer, loop_ends, last, sensing>>

\* LAPParser.plan: an iteration of the loop
ParseElement ==
    /\ parser.at = "plan"
    /\ ~Failed(parser)
    /\ \E p \in {PlanIteration(ParserState)} :
          /\ input' = p.input
          /\ lineno' = p.lineno
          /\ parser' = ParserOf(p)
    /\ UNCHANGED <<enginevars, timer, loop_ends, last, sensing>>

ParserNext ==
    \/ ParseStart
    \/ ParseElement

SpecParser == ParserInit /\ [][ParserNext]_vars

\* ------------------------------------------------------------------------
\* A Trigger evaluated check by check
\* ------------------------------------------------------------------------
\* the most sense checks a trigger of this section holds
MaxSenses == 3

\* what a sensor method returns: false, true, a larger number, a text
SensorReads == {IntV(0), IntV(1), IntV(2), StrV("x")}

\* the value texts of a full sense, None where the plan gives none
LiteralTexts ==
    {None, Some("0"), Some("1"), Some("false"), Some("False"), Some("true"),
     Some("True"), Some("x")}

\* the predicate texts of a full sense, None where the plan gives none
PredicateTexts ==
    {None, Some("=="), Some("!="), Some("<"), Some(">"), Some("<="), Some(">="),
     Some("=")}

\* the triggers evaluated: every full sense on its own, and lists of
\* sense-acts on the sensors s1, s2, s1, ...
TriggerInputs ==
    {<<FullSense("s1", v, p)>> : v \in LiteralTexts, p \in PredicateTexts}
    \cup {[i \in 1..n |-> SenseAct(IF i % 2 = 1 THEN "s1" ELSE "s2")] :
             n \in 2..MaxSenses}

\* variant: a failed check does not end the loop
TriggerStepIgnoresFailure(sg) ==
    LET i == Len(sg.fired) + 1
    IN IF i > Len(sg.senses) THEN [sg EXCEPT !.done = TRUE, !.result = TRUE]
       ELSE [sg EXCEPT !.fired = Append(@, i)]

\* Trigger.fire: one iteration of the loop over self._senses, or the
\* return 1 that follows the loop
TriggerStep(sg) ==
    LET i == Len(sg.fired) + 1
    IN IF i > Len(sg.senses) THEN [sg EXCEPT !.done = TRUE, !.result = TRUE]
       ELSE IF ~SenseFire(sg.senses[i], sg.env)
       THEN [sg EXCEPT !.fired = Append(@, i), !.done = TRUE, !.result = FALSE]
       ELSE [sg EXCEPT !.fired = Append(@, i)]

\* PlanBuilder._buildTrigger: Trigger(agent, senses) over the built senses
SenseInit ==
    /\ EngineIdle
    /\ timer = <<0>>
    /\ loop_ends = <<0>>
    /\ input = ""
    /\ lineno = 1
    /\ parser = NoParser
    /\ \E descs \in TriggerInputs, env \in [{"s1", "s2"} -> SensorReads] :
          sensing = [descs |-> descs, senses |-> BuildGoal(descs), env |-> env,
                     fired |-> <<>>, done |-> FALSE, result |-> FALSE]
    /\ last = CallRecord("Trigger.__init__")

\* Trigger.fire, a step at a time
TriggerFireStep ==
    /\ sensing.senses # <<>>
    /\ ~sensing.done
    /\ sensing' = TriggerStep(sensing)
    /\ last' = CallRecord("Trigger.fire")
    /\ UNCHANGED <<enginevars, timer, loop_ends, input, lineno, parser>>

SenseNext == TriggerFireStep

SpecSense == SenseInit /\ [][SenseNext]_vars

\* ------------------------------------------------------------------------
\* Properties
\* ------------------------------------------------------------------------
\* the last host call was an evaluation pass
Pass == last.op = "followDrive"

\* the last host call was an evaluation pass and followDrive returned
Returned == Pass /\ ~last.raised

\* the primitive actions fired in the last pass
ActionsFired == Cardinality({i \in DOMAIN last.log : last.log[i].op = "Action.fire"})

GoalSatisfied == tree.goal # None /\ TriggerFire(tree.goal, last.env)

\* the drive element was found ready, and was fired, in the last pass
WasReady(de) == Logged(last.log, "DriveElement.isReady", de.name, 1)

WasFired(de) == Logged(last.log, "DriveElement.fire", de.name, 1)

WasNotReady(de) == Logged(last.log, "DriveElement.isReady", de.name, 0)

\* C1: a pass that returns gives WON exactly when the goal is set and
\* satisfied, FOLLOWED exactly when the goal is absent or unsatisfied and some
\* drive element was ready and fired, and LOST exactly when the goal is absent
\* or unsatisfied and every drive element of every level was checked and
\* found not ready.
C1_Outcome ==
    Returned =>
        /\ last.result = DRIVE_WON <=> GoalSatisfied
        /\ last.result = DRIVE_FOLLOWED <=>
              ~GoalSatisfied /\ \E de \in DriveElements : WasReady(de) /\ WasFired(de)
        /\ last.result = DRIVE_LOST <=>
              ~GoalSatisfied /\ \A de \in DriveElements : WasNotReady(de)

\* a pass is LOST although a trigger holds: the frequency gate closed it
C1_Witness ==
    /\ Returned
    /\ scenario = ScenarioFreq
    /\ last.result = DRIVE_LOST
    /\ last.env["s1"] = IntV(1)
    /\ last.env["s2"] = IntV(0)

\* C2 (as stated): every pass that returns has fired exactly one primitive
\* action.
C2_ExactlyOneAction == Returned => ActionsFired = 1

\* C2 (amended): every pass fires at most one primitive action, and a pass
\* that returns WON or LOST fires none.
C2_AtMostOneAction ==
    Pass =>
        /\ ActionsFired <= 1
        /\ Returned /\ last.result # DRIVE_FOLLOWED => ActionsFired = 0

\* a FOLLOWED pass that only handed control to a competence
C2_Witness ==
    /\ Returned
    /\ last.result = DRIVE_FOLLOWED
    /\ ActionsFired = 0
    /\ last.fire_result.next.kind = "Competence"

\* the readiness check of the competence element in the last pass, if any
Checked(ce, res) == Logged(last.log, "CompetenceElement.isReady", ce.name, res)

\* C3: a readiness check of a competence element with retry limit r >= 0
\* answers true exactly when its trigger holds and it is among the first r+1
\* checks at which the trigger held since construction or the last reset();
\* with a negative limit it answers true exactly when the trigger holds.
C3_RetryLimit ==
    Pass =>
        \A ce \in CompetenceElements : \A res \in {0, 1} :
            Checked(ce, res) =>
                (res = 1 <=>
                    /\ TriggerFire(ce.trigger, last.env)
                    /\ (ce.max_retries < 0
                        \/ trigger_checks[ce.name] <= ce.max_retries + 1))

\* a check answered false although the trigger held: the retries were used up
C3_Witness ==
    /\ Pass
    /\ \E ce \in CompetenceElements :
          /\ ce.max_retries >= 0
          /\ Checked(ce, 0)
          /\ TriggerFire(ce.trigger, last.env)
          /\ trigger_checks[ce.name] = ce.max_retries + 2

\* C4: a drive element with max-interval k >= 0 that fires in a pass did not
\* fire in any of the k-1 passes before it: two firings are at least k
\* passes apart.
C4_MaxFrequency ==
    Pass =>
        \A de \in DriveElements :
            (/\ de.max_freq # None
             /\ WasFired(de)
             /\ last.since_fired[de.name] >= 0)
            => last.since_fired[de.name] + 1 >= de.max_freq[1]

\* the element with interval 2 fires again exactly two passes after it fired
C4_Witness ==
    /\ Pass
    /\ \E de \in DriveElements :
          /\ de.max_freq = Some(2)
          /\ WasFired(de)
          /\ last.since_fired[de.name] = 1

\* the action pattern cursor a drive element's site observes
SiteCursor(de) == element_idx[de.root.name]

\* C5: when two drive elements have the same action pattern as root, a pass
\* that fires one of them and not the other leaves the cursor observed
\* through the other unchanged.
C5_IndependentSites ==
    [][last'.op = "followDrive" =>
          \A d1, d2 \in DriveElements :
              (/\ d1.name # d2.name
               /\ d1.root.kind = "ActionPattern"
               /\ d2.root = d1.root
               /\ Logged(last'.log, "DriveElement.fire", d1.name, 1)
               /\ ~Logged(last'.log, "DriveElement.fire", d2.name, 1))
              => SiteCursor(d2)' = SiteCursor(d2)]_vars

\* C6: Scenario A compiles, and every evaluation pass on it returns FOLLOWED.
C6_ScenarioAFollowed ==
    scenario = ScenarioA =>
        /\ status # "failed"
        /\ Pass => ~last.raised /\ last.result = DRIVE_FOLLOWED

\* C7: the readiness check of a drive or competence element declared without
\* a trigger completes without error.
C7_NilTriggerChecks ==
    Pass =>
        /\ \A de \in DriveElements :
              de.trigger = None => ~Logged(last.log, "DriveElement.isReady", de.name, -1)
        /\ \A ce \in CompetenceElements :
              ce.trigger = None => ~Checked(ce, -1)

\* the drive and competence elements a plan declares
DeclaredElements(sc) ==
    Range(Flatten(sc.drivecollection.priorities))
    \cup UNION {Range(Flatten(sc.competences[i].priorities)) :
                   i \in DOMAIN sc.competences}

\* the triggerable names of a plan that are neither a registered action nor
\* a declared competence or action pattern
Unresolved(sc) ==
    {el.triggerable : el \in DeclaredElements(sc)}
    \ (sc.actions \cup Names(sc.competences) \cup Names(sc.actionpatterns))

\* the competence and action pattern names that are registered action or
\* sense names
Clashing(sc) ==
    (Names(sc.competences) \cup Names(sc.actionpatterns))
    \cap (sc.actions \cup sc.senses)

\* the goals and triggers a plan declares
DeclaredTriggers(sc) ==
    {sc.drivecollection.goal}
    \cup {sc.competences[c].goal : c \in DOMAIN sc.competences}
    \cup {el.trigger : el \in DeclaredElements(sc)}

\* the sense names in goals and triggers that no behaviour provides
UnknownSenses(sc) ==
    UNION {{t[i].name : i \in DOMAIN t} : t \in DeclaredTriggers(sc)} \ sc.senses

\* the action pattern elements that are no sense, no action and no competence
\* in last position
UnknownPatternElements(sc) ==
    UNION {{ap.elements[j].name : j \in
               {k \in DOMAIN ap.elements :
                   LET el == ap.elements[k]
                   IN /\ el.name \notin sc.senses
                      /\ (el.full
                          \/ (/\ el.name \notin sc.actions
                              /\ ~(k = Len(ap.elements)
                                   /\ el.name \in Names(sc.competences))))}} :
           ap \in Range(sc.actionpatterns)}

\* every name of a plan whose lookup PlanBuilder.build refuses
NamingFaults(sc) ==
    Unresolved(sc) \cup Clashing(sc) \cup UnknownSenses(sc)
    \cup UnknownPatternElements(sc)

C9_ClashFailsFirst ==
    Clashing(scenario) # {} /\ status # "parsed" =>
        /\ status = "failed"
        /\ build_error.type = "NameError"
        /\ build_error.phase = "clash"
        /\ build_error.name \in Clashing(scenario)
        /\ last.constructed = <<>>
        /\ tree = NoTree

\* the build of a plan whose action pattern is named like a sense has failed
C9_Witness ==
    /\ scenario = ScenarioClashSense
    /\ status = "failed"
    /\ build_error = NameError("s1", "clash")

\* the competence element is ready before the pass: its trigger holds under
\* the sensor reads and its retries are not used up
ReadyBefore(ce, env) ==
    /\ TriggerFire(ce.trigger, env)
    /\ (ce.max_retries < 0 \/ retries[ce.name] <= ce.max_retries)

\* the position of the first ready element of a priority level (0: none)
FirstReady(level, env) ==
    IF \E i \in DOMAIN level : ReadyBefore(level[i], env)
    THEN CHOOSE i \in DOMAIN level :
            /\ ReadyBefore(level[i], env)
            /\ \A j \in 1..(i - 1) : ~ReadyBefore(level[j], env)
    ELSE 0

\* what the pass recorded in log did with the competence whose priority
\* levels are given, fired with no satisfied goal, and what it returned
FiredFirstReadyLevel(levels, env, log, result) ==
    LET ready == {p \in DOMAIN levels : FirstReady(levels[p], env) # 0}
        touched(ce) == \E i \in DOMAIN log :
                           /\ log[i].id = ce.name
                           /\ log[i].op \in {"CompetenceElement.isReady",
                                             "CompetenceElement.fire"}
        actions == {log[i].id : i \in {k \in DOMAIN log : log[k].op = "Action.fire"}}
    IN IF ready = {}
       THEN /\ result = FireResult(FALSE, NoneRef)
            /\ actions = {}
            /\ \A p \in DOMAIN levels : \A ce \in Range(levels[p]) :
                  ~Logged(log, "CompetenceElement.fire", ce.name, 1)
       ELSE LET first == CHOOSE p \in ready : \A q \in ready : p <= q
                ce == levels[first][FirstReady(levels[first], env)]
            IN /\ Logged(log, "CompetenceElement.fire", ce.name, 1)
               /\ result = IF ce.element.kind = "Action"
                           THEN FireResult(FALSE, NoneRef)
                           ELSE FireResult(TRUE, ce.element)
               /\ actions = IF ce.element.kind = "Action"
                            THEN {ce.element.name} ELSE {}
               /\ \A p \in DOMAIN levels : \A other \in Range(levels[p]) :
                     p > first => ~touched(other)

\* C10: a pass that fires a competence whose goal is absent or unsatisfied
\* gets from it the result of the first priority level with a ready element,
\* and touches no element of a lower level; when no level has a ready
\* element it gets stop with no hand-off and nothing is fired.
C10_FirstReadyLevel ==
    [][(last'.op = "followDrive" /\ ~last'.raised) =>
          \A c \in DOMAIN tree.competences :
              (/\ Logged(last'.log, "Competence.fire", c, 1)
               /\ ~Logged(last'.log, "Competence.goal", c, 1))
              => FiredFirstReadyLevel(tree.competences[c].elements, last'.env,
                                      last'.log, last'.fire_result)]_vars

\* Scenario C: s2 is false and s1 true, the competence fired act2 only and
\* returned the second level's result
C10_Witness ==
    /\ scenario = ScenarioC
    /\ Returned
    /\ last.env["s2"] = IntV(0)
    /\ last.env["s1"] = IntV(1)
    /\ Logged(last.log, "Competence.fire", "c1", 1)
    /\ \E res \in {0, 1} : Logged(last.log, "Action.fire", "act2", res)
    /\ ActionsFired = 1
    /\ Checked(tree.competences["c1"].elements[1][1], 0)
    /\ last.fire_result = FireResult(FALSE, NoneRef)

\* the action pattern was fired with its cursor at idx in the pass recorded
\* in call, and the element there is an action or a sense
PatternStepped(call, ap, idx) ==
    /\ Logged(call.log, "ActionPattern.fire", ap.name, idx)
    /\ ap.elements[idx + 1].kind \in {"Action", "Sense"}

\* the element at the cursor succeeded in that pass
ElementSucceeded(call, el) ==
    IF el.kind = "Action" THEN Logged(call.log, "Action.fire", el.name, 1)
    ELSE SenseFire(el, call.env)

\* C11: ActionPattern.fire on an action or sense at the cursor: a failed
\* element puts the cursor to 0 and the result is stop with no hand-off; a
\* successful last element does the same; a successful element that is not
\* the last advances the cursor by one and the result is continue with no
\* hand-off.
C11_PatternStep ==
    [][last'.op = "followDrive" =>
          \A n \in DOMAIN tree.actionpatterns :
              LET ap == tree.actionpatterns[n]
                  idx == element_idx[n]
              IN PatternStepped(last', ap, idx) =>
                    IF ElementSucceeded(last', ap.elements[idx + 1])
                       /\ idx + 1 < Len(ap.elements)
                    THEN /\ element_idx'[n] = idx + 1
                         /\ last'.fire_result = FireResult(TRUE, NoneRef)
                    ELSE /\ element_idx'[n] = 0
                         /\ last'.fire_result = FireResult(FALSE, NoneRef)]_vars

\* Scenario D: a1 succeeded, a2 was fired, and a1 failed on its second
\* invocation; the pattern reported stop and its cursor is 0
C11_Witness ==
    /\ scenario = ScenarioD
    /\ Returned
    /\ Logged(last.log, "ActionPattern.fire", "apD", 0)
    /\ Logged(last.log, "Action.fire", "a1", 0)
    /\ invocations["a1"] = 2
    /\ invocations["a2"] = 1
    /\ element_idx["apD"] = 0
    /\ last.fire_result = FireResult(FALSE, NoneRef)

\* the competences and action patterns fired in the last pass
CollectionsFired ==
    {i \in DOMAIN last.log : last.log[i].op \in {"Competence.fire", "ActionPattern.fire"}}

\* only the cursor element of the fired drive element was fired: a hand-off
\* target the pass produced was not fired in the pass
HandOffNotFired ==
    /\ Cardinality(CollectionsFired) <= 1
    /\ \A i \in CollectionsFired :
          /\ \E j \in 1..(i - 1) : last.log[j].op = "DriveElement.fire"
          /\ IsSet(last.fire_result.next) =>
                \A j \in DOMAIN last.log :
                    (j > i /\ last.log[j].id = last.fire_result.next.name)
                    => last.log[j].op = "Action.fire"

\* C12: every pass on a built plan ends with one of the three outcomes, and
\* a hand-off target produced during the pass is not fired in that pass.
C12_PassTerminates ==
    Pass =>
        /\ ~last.raised
        /\ last.result \in {DRIVE_WON, DRIVE_FOLLOWED, DRIVE_LOST}
        /\ HandOffNotFired

\* the cursor element of the drive element was fired in the pass recorded in call
CursorFired(call, el) ==
    \E i \in DOMAIN call.log :
        /\ call.log[i].id = el.name
        /\ call.log[i].op = (IF el.kind = "Action" THEN "Action.fire"
                             ELSE IF el.kind = "Competence" THEN "Competence.fire"
                             ELSE "ActionPattern.fire")

\* where DriveElement.fire leaves the cursor, given the element at the cursor
\* and the result of firing it
CursorAfter(de, el, result) ==
    IF el.kind = "Action" THEN de.root
    ELSE IF continueExecution(result)
    THEN IF IsSet(nextElement(result)) THEN nextElement(result) ELSE el
    ELSE de.root

\* C18: DriveElement.fire fires the element at the cursor; an Action puts the
\* cursor to the root; otherwise a continue result with a hand-off target
\* puts the cursor to that target, a continue result without one leaves the
\* cursor, and a stop result puts the cursor to the root.
C18_CursorMoves ==
    [][(last'.op = "followDrive" /\ ~last'.raised) =>
          \A de \in DriveElements :
              Logged(last'.log, "DriveElement.fire", de.name, 1) =>
                  /\ CursorFired(last', element[de.name])
                  /\ element'[de.name] =
                        CursorAfter(de, element[de.name], last'.fire_result)]_vars

\* a fired drive element whose cursor went from its root competence down to
\* the hand-off target of the result
C18_Witness ==
    /\ Returned
    /\ \E de \in DriveElements :
          /\ WasFired(de)
          /\ de.root.kind = "Competence"
          /\ Logged(last.log, "Competence.fire", de.root.name, 1)
          /\ continueExecution(last.fire_result)
          /\ IsSet(nextElement(last.fire_result))
          /\ element[de.name] = nextElement(last.fire_result)
          /\ element[de.name] # de.root

\* C19: DriveElement.fire never changes the time of the last firing: after a
\* pass it is the timestamp of the pass for an element whose readiness check
\* succeeded, also when the stop result of its element slipped the cursor
\* back to the root, and it is what it was for every other element; reset()
\* puts the cursor to the root and the time of the last firing to its
\* initial value.
C19_FireKeepsLastFired ==
    [][/\ last'.op = "followDrive" =>
             \A de \in DriveElements :
                 last_fired'[de.name] =
                     IF Logged(last'.log, "DriveElement.isReady", de.name, 1)
                     THEN timer[DPETimer] ELSE last_fired[de.name]
       /\ last'.op = "DriveCollection.reset" =>
             \A de \in DriveElements :
                 /\ element'[de.name] = de.root
                 /\ last_fired'[de.name] = InitialLastFired]_vars

\* a drive element was found ready and fired, its competence or action
\* pattern reported stop, the cursor is at the root and the time of the last
\* firing is the timestamp of that pass
C19_Witness ==
    /\ Returned
    /\ \E de \in DriveElements :
          /\ WasReady(de)
          /\ WasFired(de)
          /\ last.fire_result # NoResult
          /\ ~continueExecution(last.fire_result)
          /\ element[de.name] = de.root
          /\ last_fired[de.name] = timer[DPETimer] - 1
          /\ last_fired[de.name] # InitialLastFired

\* the drive element is ready at the timestamp ts: its trigger holds in env,
\* and it has no maximum frequency or the time since lf, when it last fired,
\* has reached it
ReadyAt(de, env, lf, ts) ==
    /\ de.trigger # None
    /\ TriggerFire(de.trigger, env)
    /\ (MaxFreqNegative(de.max_freq) \/ ts - lf[de.name] >= de.max_freq[1])

\* the readiness checks and firings of the drive element in the trace
DriveElementEvents(log, de) ==
    {k \in DOMAIN log : /\ log[k].id = de.name
                        /\ log[k].op \in {"DriveElement.isReady", "DriveElement.fire"}}

\* C20: in a pass the fired drive element is the first ready one in priority
\* order (levels in declared order, elements of a level in declared order),
\* the first ready one is fired when the goal is not satisfied, no drive
\* element after the fired one is checked for readiness or fired, and at
\* most one drive element is fired.
C20_FirstReadyDrive ==
    [][last'.op = "followDrive" =>
          LET order == Flat(tree.elements)
              log == last'.log
              ready(i) == ReadyAt(order[i], last'.env, last_fired, timer[DPETimer])
              fired(i) == Logged(log, "DriveElement.fire", order[i].name, 1)
          IN /\ Cardinality({k \in DOMAIN log : log[k].op = "DriveElement.fire"}) <= 1
             /\ \A i \in DOMAIN order :
                   /\ fired(i) =>
                         /\ ready(i)
                         /\ \A j \in 1..(i - 1) : ~ready(j)
                         /\ \A j \in (i + 1)..Len(order) :
                               DriveElementEvents(log, order[j]) = {}
                   /\ (/\ ~(tree.goal # None /\ TriggerFire(tree.goal, last'.env))
                       /\ ready(i)
                       /\ \A j \in 1..(i - 1) : ~ready(j) /\ order[j].trigger # None)
                      => fired(i)]_vars

\* a pass that fired a drive element which is not the first in priority
\* order, while a later one whose trigger held was neither checked nor fired
C20_Witness ==
    /\ Returned
    /\ LET order == Flat(tree.elements)
       IN \E i \in DOMAIN order :
             /\ i > 1
             /\ WasFired(order[i])
             /\ WasNotReady(order[1])
             /\ \E j \in (i + 1)..Len(order) :
                   /\ order[j].trigger # None
                   /\ TriggerFire(order[j].trigger, last.env)
                   /\ MaxFreqNegative(order[j].max_freq)
                   /\ DriveElementEvents(last.log, order[j]) = {}

\* C13: the time of a stepped timer is the number of loopEnd() calls since
\* its last reset() or its construction, whatever calls of reset, loopEnd,
\* loopWait and setLoopFreq were made; loopWait() and setLoopFreq() leave
\* the time as it is.
C13_TimeCountsLoopEnds ==
    /\ [](\A t \in DOMAIN timer : SteppedTimerTime(timer[t]) = loop_ends[t])
    /\ [][last'.op \in {"SteppedTimer.loopWait", "SteppedTimer.setLoopFreq"}
            => timer' = timer]_vars

\* after a loopWait() on the first timer: its time is still the 2 calls of
\* loopEnd it took, and the second timer stands at its 1 call
C13_Witness ==
    /\ last.op = "SteppedTimer.loopWait"
    /\ last.env = <<1>>
    /\ timer = <<2, 1>>
    /\ loop_ends = <<2, 1>>

\* q is the quotient a / v with its fraction cut off
IsQuotient(q, a, v) ==
    /\ Abs(q) * Abs(v) <= a
    /\ a < (Abs(q) + 1) * Abs(v)
    /\ (q > 0 => v > 0) /\ (q < 0 => v < 0)

\* C17: for an integer value v the parser converts a frequency to the period
\* 3,600,000*v (hours), 60,000*v (minutes), 1,000*v (seconds), 1000/v (hz),
\* 60000/v (pm) and v (none), the quotients cut to an integer, and a time the
\* same way for hours, minutes, seconds and none; the two quotients exist
\* for v # 0, and the division raises for v = 0.
C17_UnitConversion ==
    last.op \in {"LAPParser.freq", "LAPParser.time"} =>
        LET unit == last.env[1]
            v == last.env[2]
        IN /\ unit = "HOURS" => ~last.raised /\ last.result = 3600000 * v
           /\ unit = "MINUTES" => ~last.raised /\ last.result = 60000 * v
           /\ unit = "SECONDS" => ~last.raised /\ last.result = 1000 * v
           /\ unit = "NONE" => ~last.raised /\ last.result = v
           /\ unit = "HZ" => IF v = 0 THEN last.raised
                             ELSE ~last.raised /\ IsQuotient(last.result, 1000, v)
           /\ unit = "PM" => IF v = 0 THEN last.raised
                             ELSE ~last.raised /\ IsQuotient(last.result, 60000, v)

\* (hz -7) was converted to the period -142
C17_Witness ==
    /\ last.op = "LAPParser.freq"
    /\ last.env = <<"HZ", -7>>
    /\ ~last.raised
    /\ last.result = -142

\* the characters the iterations of a call took off the input
RECURSIVE Removed(_)
Removed(iterations) ==
    IF iterations = <<>> THEN 0
    ELSE Head(iterations).removed + Removed(Tail(iterations))

\* C16: a call of LAPLexer.token() returns a token or None; every iteration
\* of its loop takes at least one character off the input, None is returned
\* only with the input used up, and on an empty input the call returns None
\* and leaves it empty; the calls repeated, the input is used up at last.
C16_LexerTerminates ==
    /\ [][last'.op = "LAPLexer.token" =>
             /\ \A i \in DOMAIN last'.log : last'.log[i].removed >= 1
             /\ Len(input') = Len(input) - Removed(last'.log)
             /\ last'.result = NoToken => input' = ""
             /\ input = "" => last'.result = NoToken /\ input' = ""]_vars
    /\ <>[](input = "")

\* a call that went through a character of no token and a separator before
\* it returned a comment
C16_Witness ==
    /\ last.op = "LAPLexer.token"
    /\ last.result.token = "COMMENT"
    /\ \E i, j \in DOMAIN last.log :
          /\ i < j
          /\ last.log[i].kind = "illegal"
          /\ last.log[j].kind = "separator"

\* parse() has returned or raised
Parsed == parser.at = "done" \/ Failed(parser)

\* how many elements of these kinds the plan text was put together from
Count(elements, kinds) == Cardinality({i \in DOMAIN elements : elements[i] \in kinds})

\* the plan text is whole, and a docstring in it is its first element
WholePlan == last.env.text = PlanText(last.env.elements)

DocstringFirst == \A i \in DOMAIN last.env.elements : last.env.elements[i] = "DOC" => i = 1

CurrentLine ==
    LET text == SetInput(last.env.text)
    IN 1 + Newlines(SubSeq(text, 1, Len(text) - Len(input)))

\* the message of the exception is "Line <n>: <message>" with the current line
CarriesLine == StartsWith(parser.error.msg, "Line " \o ToString(CurrentLine) \o ": ")

C21_GoalReachedTouchesNothing ==
    [][(/\ last'.op = "followDrive"
        /\ tree.goal # None
        /\ TriggerFire(tree.goal, last'.env))
       => /\ ~last'.raised
          /\ last'.result = DRIVE_WON
          /\ \A i \in DOMAIN last'.log : last'.log[i].op = "DriveCollection.goal"
          /\ element' = element
          /\ last_fired' = last_fired
          /\ retries' = retries
          /\ element_idx' = element_idx]_vars

\* the goal was reached with the drive element down at the action pattern,
\* a retry consumed and the pattern's cursor at its second element
C21_Witness ==
    /\ scenario = ScenarioGoal
    /\ Returned
    /\ last.result = DRIVE_WON
    /\ last.log = << Ev("DriveCollection.goal", "life", 1) >>
    /\ element["e1"] = Ref("ActionPattern", "apG")
    /\ last_fired["e1"] = 1
    /\ retries["x1"] = 1
    /\ element_idx["apG"] = 1

\* C22: a pass that fires a competence whose goal is set and satisfied gets
\* from it stop with no hand-off; the readiness of no competence element is
\* checked, no action is fired and no retry counter changes.
C22_CompetenceGoalTouchesNothing ==
    [][last'.op = "followDrive" =>
          \A c \in DOMAIN tree.competences :
              (/\ Logged(last'.log, "Competence.fire", c, 1)
               /\ tree.competences[c].goal # None
               /\ TriggerFire(tree.competences[c].goal, last'.env))
              => /\ ~last'.raised
                 /\ last'.fire_result = FireResult(FALSE, NoneRef)
                 /\ \A i \in DOMAIN last'.log :
                       last'.log[i].op \notin {"CompetenceElement.isReady",
                                               "CompetenceElement.fire", "Action.fire"}
                 /\ retries' = retries]_vars

\* the competence c2 was fired with its goal satisfied while its first
\* element was ready, after a retry of the competence that handed off to it
\* had been consumed; the drive element slipped back to its root
C22_Witness ==
    /\ scenario = ScenarioCycle
    /\ Returned
    /\ Logged(last.log, "Competence.fire", "c2", 1)
    /\ Logged(last.log, "Competence.goal", "c2", 1)
    /\ last.env["s1"] = IntV(1)
    /\ retries["y1"] = 0
    /\ retries["x2"] = 1
    /\ last.fire_result = FireResult(FALSE, NoneRef)
    /\ element["e1"] = Ref("Competence", "c1")

\* the positions of the trace of the last pass at which a competence element
\* was fired
ElementFirings == {i \in DOMAIN last.log : last.log[i].op = "CompetenceElement.fire"}

\* C23: FireResult(1, None) is what a priority level gives only when none of
\* its elements is ready, and no competence element gives it. In a pass that
\* fires a competence whose goal is absent or unsatisfied: once an element
\* was fired nothing more is checked or fired but that element's action, and
\* the competence gives the element's result, stop with no hand-off for an
\* action and continue with the target for a hand-off; when no element was
\* fired every element of every level was checked and found not ready and
\* the competence gives stop with no hand-off.
C23_SentinelOnlyWhenNoneReady ==
    Returned =>
        \A c \in DOMAIN tree.competences :
            (Logged(last.log, "Competence.fire", c, 1)
             /\ ~Logged(last.log, "Competence.goal", c, 1))
            => /\ last.fire_result # FireResult(TRUE, NoneRef)
               /\ Cardinality(ElementFirings) <= 1
               /\ \A i \in ElementFirings :
                     LET ce == CHOOSE x \in CompetenceElementsOf(c) :
                                   x.name = last.log[i].id
                     IN /\ \A j \in DOMAIN last.log :
                              j > i => /\ last.log[j].op = "Action.fire"
                                       /\ last.log[j].id = ce.element.name
                        /\ last.fire_result =
                              IF ce.element.kind = "Action"
                              THEN FireResult(FALSE, NoneRef)
                              ELSE FireResult(TRUE, ce.element)
               /\ ElementFirings = {} =>
                     /\ last.fire_result = FireResult(FALSE, NoneRef)
                     /\ \A ce \in CompetenceElementsOf(c) : Checked(ce, 0)

\* the first level of c1 had no ready element and the element of its second
\* level was fired: the competence gave the hand-off to c2
C23_Witness ==
    /\ scenario = ScenarioCycle
    /\ Returned
    /\ Logged(last.log, "Competence.fire", "c1", 1)
    /\ Checked(tree.competences["c1"].elements[1][1], 0)
    /\ Checked(tree.competences["c1"].elements[2][1], 1)
    /\ Logged(last.log, "CompetenceElement.fire", "x2", 1)
    /\ last.fire_result = FireResult(TRUE, Ref("Competence", "c2"))

\* the competence element was fired in the last pass
ElementFired(ce) == Logged(last.log, "CompetenceElement.fire", ce.name, 1)

\* the calls of Action.fire in the last pass are one call, of this action
FiredOnce(a) ==
    /\ ActionsFired = 1
    /\ \E res \in {0, 1} : Logged(last.log, "Action.fire", a.name, res)

\* C24 as stated: CompetenceElement.fire on an Action fires it exactly once
\* and gives stop with no hand-off, whatever the action returns; on a
\* competence or action pattern it fires nothing and gives stop with a
\* hand-off to the target.
C24_HandOffStops ==
    Returned =>
        \A ce \in CompetenceElements :
            ElementFired(ce) =>
                IF ce.element.kind = "Action"
                THEN FiredOnce(ce.element) /\ last.fire_result = FireResult(FALSE, NoneRef)
                ELSE ActionsFired = 0 /\ last.fire_result = FireResult(FALSE, ce.element)

\* C24: CompetenceElement.fire on an Action fires it exactly once and gives
\* stop with no hand-off, whatever the action returns; on a competence or
\* action pattern it fires nothing and gives continue with a hand-off to the
\* target.
C24_HandOffContinues ==
    Returned =>
        \A ce \in CompetenceElements :
            ElementFired(ce) =>
                IF ce.element.kind = "Action"
                THEN FiredOnce(ce.element) /\ last.fire_result = FireResult(FALSE, NoneRef)
                ELSE ActionsFired = 0 /\ last.fire_result = FireResult(TRUE, ce.element)

\* the element x1 was fired on its action pattern: nothing was executed and
\* the drive element took the pattern as its cursor
C24_Witness ==
    /\ scenario = ScenarioGoal
    /\ Returned
    /\ ElementFired(tree.competences["c1"].elements[1][1])
    /\ ActionsFired = 0
    /\ continueExecution(last.fire_result)
    /\ nextElement(last.fire_result) = Ref("ActionPattern", "apG")
    /\ element["e1"] = Ref("ActionPattern", "apG")

\* the action pattern was fired in the pass recorded in call with its cursor
\* at idx, where it holds a competence
PatternAtCompetence(call, ap, idx) ==
    /\ Logged(call.log, "ActionPattern.fire", ap.name, idx)
    /\ ap.elements[idx + 1].kind = "Competence"

\* what the pass recorded in call did on an action pattern with the
\* competence c at its cursor, up to the result the pattern gave
HandedOff(call, c) ==
    /\ ~call.raised
    /\ \A i \in DOMAIN call.log :
          call.log[i].op \notin {"Action.fire", "Competence.fire"}
    /\ nextElement(call.fire_result) = c

\* a drive element fired in that pass with a competence at its cursor fired
\* that competence
CompetenceAtCursorFired(call, de, el) ==
    (Logged(call.log, "DriveElement.fire", de.name, 1) /\ el.kind = "Competence")
    => Logged(call.log, "Competence.fire", el.name, 1)

\* C25 as stated: ActionPattern.fire with a competence at the cursor puts the
\* cursor to 0, fires nothing and gives stop with a hand-off to the
\* competence; the competence is fired in the next pass that fires the
\* drive element.
C25_PatternHandOffStops ==
    [][last'.op = "followDrive" =>
          \A n \in DOMAIN tree.actionpatterns : \A de \in DriveElements :
              /\ CompetenceAtCursorFired(last', de, element[de.name])
              /\ PatternAtCompetence(last', tree.actionpatterns[n], element_idx[n]) =>
                    LET c == tree.actionpatterns[n].elements[element_idx[n] + 1]
                    IN /\ element_idx'[n] = 0
                       /\ HandedOff(last', c)
                       /\ ~continueExecution(last'.fire_result)
                       /\ Logged(last'.log, "DriveElement.fire", de.name, 1)
                             => element'[de.name] = c]_vars

\* C25: ActionPattern.fire with a competence at the cursor puts the cursor to
\* 0, fires nothing and gives continue with a hand-off to the competence,
\* which the drive element fired in the pass takes as its cursor; a drive
\* element fired with a competence at its cursor fires that competence, so
\* the competence is first fired in the next pass that fires the drive
\* element.
C25_PatternHandOffContinues ==
    [][last'.op = "followDrive" =>
          \A n \in DOMAIN tree.actionpatterns : \A de \in DriveElements :
              /\ CompetenceAtCursorFired(last', de, element[de.name])
              /\ PatternAtCompetence(last', tree.actionpatterns[n], element_idx[n]) =>
                    LET c == tree.actionpatterns[n].elements[element_idx[n] + 1]
                    IN /\ element_idx'[n] = 0
                       /\ HandedOff(last', c)
                       /\ continueExecution(last'.fire_result)
                       /\ Logged(last'.log, "DriveElement.fire", de.name, 1)
                             => element'[de.name] = c]_vars

\* the pattern apG was fired with its cursor at c1: nothing was executed,
\* its cursor is 0 and the drive element's cursor is c1
C25_Witness ==
    /\ scenario = ScenarioGoal
    /\ Returned
    /\ Logged(last.log, "DriveElement.fire", "e1", 1)
    /\ Logged(last.log, "ActionPattern.fire", "apG", 1)
    /\ ActionsFired = 0
    /\ last.fire_result = FireResult(TRUE, Ref("Competence", "c1"))
    /\ element_idx["apG"] = 0
    /\ element["e1"] = Ref("Competence", "c1")

\* C26: the cursor of every action pattern of a built plan is at least 0 and
\* less than the number of the pattern's elements, after every pass and
\* every reset().
C26_CursorInRange ==
    status = "built" =>
        \A n \in DOMAIN tree.actionpatterns :
            /\ 0 <= element_idx[n]
            /\ element_idx[n] < Len(tree.actionpatterns[n].elements)

\* the last element of the three-element pattern succeeded in a pass fired
\* from the cursor at that element, and the cursor is 0 again
C26_Witness ==
    /\ scenario = ScenarioShare
    /\ Returned
    /\ Logged(last.log, "ActionPattern.fire", "ap1", 2)
    /\ Logged(last.log, "Action.fire", "a1", 1)
    /\ Len(tree.actionpatterns["ap1"].elements) = 3
    /\ element_idx["ap1"] = 0

\* the method that fires the element a readiness check was made on
FireOf(op) ==
    IF op = "DriveElement.isReady" THEN "DriveElement.fire" ELSE "CompetenceElement.fire"

\* C27: in the trace of every pass, a readiness check of a drive element or
\* of a competence element that returned true is followed at once by fire()
\* on the same element; and in every state the consumed-retry counter of
\* every competence element is the number of times the element was fired
\* since its construction or last reset().
C27_ReadyThenFired ==
    /\ \A n \in DOMAIN retries : retries[n] = fires[n]
    /\ Pass =>
          \A i \in DOMAIN last.log :
              (/\ last.log[i].op \in {"DriveElement.isReady", "CompetenceElement.isReady"}
               /\ last.log[i].res = 1)
              => /\ i < Len(last.log)
                 /\ last.log[i + 1] = Ev(FireOf(last.log[i].op), last.log[i].id, 1)

\* a pass in which the drive element and the competence element x2 were
\* found ready and fired, x2 for the second time
C27_Witness ==
    /\ scenario = ScenarioCycle
    /\ Pass
    /\ WasReady(tree.elements[1][1])
    /\ Checked(tree.competences["c1"].elements[2][1], 1)
    /\ retries["x2"] = 2
    /\ fires["x2"] = 2

\* the names of the competence's own elements
OwnElements(c) == {ce.name : ce \in CompetenceElementsOf(c)}

\* the step put the retry counters of the elements of c to 0 and left the
\* other retry counters alone
OwnRetriesReset(c) ==
    \A n \in DOMAIN retries :
        retries'[n] = IF n \in OwnElements(c) THEN 0 ELSE retries[n]

\* the step reset what the elements of c target: the cursor of an action
\* pattern, the retry counters of a nested competence
TargetsReset(c) ==
    \A ce \in CompetenceElementsOf(c) :
        /\ ce.element.kind = "ActionPattern" => element_idx'[ce.element.name] = 0
        /\ ce.element.kind = "Competence" =>
              \A n \in OwnElements(ce.element.name) : retries'[n] = 0

C29_ActionOnlyAsRoot ==
    status = "built" =>
        \A de \in DriveElements :
            \/ element[de.name] = de.root
            \/ element[de.name].kind \in {"Competence", "ActionPattern"}

\* a hand-off has put the cursor of the drive element below its root: it is
\* the competence c2, whose elements target the competence c1 and the
\* action a2
C29_Witness ==
    /\ scenario = ScenarioCycle
    /\ Returned
    /\ Logged(last.log, "DriveElement.fire", "e1", 1)
    /\ element["e1"] = Ref("Competence", "c2")
    /\ element["e1"] # tree.elements[1][1].root
    /\ \E ce \in CompetenceElementsOf("c2") : ce.element.kind = "Action"

\* the element at position j of the action pattern descriptor names a sense,
\* an action or, at the last position, a competence
Resolves(sc, ap, j) ==
    LET el == ap.elements[j]
    IN \/ el.name \in sc.senses
       \/ ~el.full /\ el.name \in sc.actions
       \/ ~el.full /\ j = Len(ap.elements) /\ el.name \in Names(sc.competences)

\* the action pattern elements that name a competence before the last
\* position, or an action pattern
Misplaced(sc) ==
    UNION {{ap.elements[j].name : j \in
               {k \in DOMAIN ap.elements :
                   LET el == ap.elements[k]
                   IN /\ ~el.full
                      /\ \/ k < Len(ap.elements) /\ el.name \in Names(sc.competences)
                         \/ el.name \in Names(sc.actionpatterns)}} :
           ap \in Range(sc.actionpatterns)}

\* C30: a build that succeeds has resolved every element of every action
\* pattern to a sense, a sense-act or an action, or the last element to a
\* competence; a plan with a competence name before the last position of an
\* action pattern, or with an action pattern name at any position, fails to
\* build with a NameError and no drive collection is returned.
C30_PatternElements ==
    status # "parsed" =>
        /\ status = "built" =>
              \A i \in DOMAIN scenario.actionpatterns :
                  \A j \in DOMAIN scenario.actionpatterns[i].elements :
                      Resolves(scenario, scenario.actionpatterns[i], j)
        /\ Misplaced(scenario) # {} =>
              /\ status = "failed"
              /\ build_error.type = "NameError"
              /\ tree = NoTree

\* the build of the plan whose action pattern starts with the competence c1
\* has failed with the NameError of that name, raised while the action
\* patterns were filled
C30_Witness ==
    /\ scenario = ScenarioCompetenceFirst
    /\ Misplaced(scenario) = {"c1"}
    /\ status = "failed"
    /\ build_error = NameError("c1", "actionpatterns")
    /\ last.op = "build"

\* the sense checks of the trigger under evaluation that hold
Holds(i) == SenseFire(sensing.senses[i], sensing.env)

\* C31: Trigger.fire returns true exactly when every sense check it
\* contains returns true; it evaluates the checks in their order and none
\* after the first one that fails.
C31_TriggerFire ==
    /\ sensing.fired = [i \in 1..Len(sensing.fired) |-> i]
    /\ \A k \in DOMAIN sensing.fired : k < Len(sensing.fired) => Holds(k)
    /\ sensing.done =>
          /\ sensing.result = (\A i \in DOMAIN sensing.senses : Holds(i))
          /\ sensing.result => Len(sensing.fired) = Len(sensing.senses)
          /\ ~sensing.result => ~Holds(Len(sensing.fired))

C31_Witness ==
    /\ sensing.done
    /\ ~sensing.result
    /\ Len(sensing.senses) = 3
    /\ sensing.fired = <<1, 2>>
    /\ Holds(3)

\* C32: each of the six comparison operators, written as a run between
\* separating characters, is lexed as one PREDICATE token that carries
\* exactly that operator.
C32_OperatorLexed ==
    [][\A o \in ComparisonOperators :
          (FullTokenLength(input) = 0 /\ SepStr(input) = o)
          => last'.result = Token("PREDICATE", o)]_vars

\* C33: a sense check against the literal false (or False) under == holds
\* exactly when the sensor reads false.
C33_FalseLiteral ==
    (/\ sensing.done
     /\ Len(sensing.descs) = 1
     /\ sensing.descs[1].value \in {Some("false"), Some("False")}
     /\ sensing.descs[1].pred \in {None, Some("==")})
    => (sensing.result <=> sensing.env["s1"] = IntV(0))

\* the positions of the trace of the last pass at which op ran
At(op) == {i \in DOMAIN last.log : last.log[i].op = op}

\* C34: no pass fires more than one primitive action, whatever the plan and
\* the sensor values: what a pass fires is a registered action, fired after
\* the drive element was found ready, and nothing is fired after it.
C34_OneActionPerPass ==
    Pass =>
        /\ \A i, j \in At("Action.fire") : i = j
        /\ \A i \in At("Action.fire") :
              /\ last.log[i].id \in scenario.actions
              /\ \E k \in At("DriveElement.isReady") : k < i /\ last.log[k].res = 1
              /\ \A j \in DOMAIN last.log : j > i => last.log[j].op # "Action.fire"

\* a pass on a plan with a goal in which an action pattern fired an action
C34_Witness ==
    /\ Returned
    /\ tree.goal # None
    /\ At("Action.fire") # {}
    /\ At("ActionPattern.fire") # {}
    /\ Cardinality(DriveElements) >= 1

\* C35: the timer whose time the drive priority elements read is the timer
\* that followDrive advances with loopEnd(), also after the host has
\* replaced the agent's timer: every pass that returns moves the time they
\* read forward by one step.
C35_SameTimer ==
    [][(last'.op = "followDrive" /\ ~last'.raised)
       => timer'[DPETimer] = timer[DPETimer] + 1]_vars

C37_OtherDriveElementsKept ==
    [][last'.op = "followDrive" =>
          \A d1, d2 \in DriveElements :
              (d1.name # d2.name /\ Logged(last'.log, "DriveElement.fire", d1.name, 1))
              => /\ element'[d2.name] = element[d2.name]
                 /\ last_fired'[d2.name] = last_fired[d2.name]]_vars

\* the second level fired while the element of the first level, which had
\* descended to a nested competence, was skipped as not ready
C37_Witness ==
    /\ Pass
    /\ \E d1, d2 \in DriveElements :
          /\ d1.name # d2.name
          /\ Logged(last.log, "DriveElement.fire", d1.name, 1)
          /\ Logged(last.log, "DriveElement.isReady", d2.name, 0)
          /\ element[d2.name] # d2.root
          /\ last_fired[d2.name] >= 0

C39_PositionKept ==
    [][last'.op = "followDrive" =>
          \A de \in DriveElements :
              (/\ element[de.name].kind = "ActionPattern"
               /\ element_idx[element[de.name].name] > 0
               /\ ~Logged(last'.log, "DriveElement.fire", de.name, 1))
              => element_idx'[element[de.name].name]
                     = element_idx[element[de.name].name]]_vars

\* some drive element was ready when the pass began
SomeReady(env) ==
    \E de \in DriveElements : ReadyAt(de, env, last_fired, timer[DPETimer])

\* C40: a pass that returns, made when some drive element is ready and the
\* goal is not satisfied, gives FOLLOWED whatever the firing produced: also
\* when the fired action failed, when the fired competence had no ready
\* element and when the element of the fired action pattern failed.
C40_FollowedWhateverFired ==
    [][(/\ last'.op = "followDrive"
        /\ ~last'.raised
        /\ ~(tree.goal # None /\ TriggerFire(tree.goal, last'.env))
        /\ SomeReady(last'.env))
       => last'.result = DRIVE_FOLLOWED]_vars

\* a FOLLOWED pass whose fired competence found none of its elements ready
C40_Witness ==
    /\ Returned
    /\ last.result = DRIVE_FOLLOWED
    /\ At("Competence.fire") # {}
    /\ At("CompetenceElement.fire") = {}
    /\ At("Action.fire") = {}
    /\ \A i \in At("CompetenceElement.isReady") : last.log[i].res = 0
    /\ last.fire_result = FireResult(FALSE, NoneRef)

====
